---- MODULE Spec2Model ----
(***************************************************************************)
(* Model of the debate orchestrator (backend/app/llm/orchestrator.py) and  *)
(* of the room store it writes through (backend/app/redis_client.py,       *)
(* backend/app/main.py StorageManager).                                    *)
(*                                                                         *)
(* The server runs on one asyncio event loop: code between two awaits is   *)
(* atomic, and at every await that suspends (a Redis command, the provider *)
(* call, asyncio.sleep) any other coroutine may run.  Every action below   *)
(* is one such atomic segment of one coroutine.  A Redis command takes     *)
(* effect in the step that resumes the coroutine awaiting it, and it is    *)
(* answered with its reply or with an exception of the client (a socket    *)
(* timeout, a lost connection), which every function of RedisClient        *)
(* catches.  A function of RedisClient that finds connected false returns  *)
(* at once; its steps are kept as steps that change nothing.               *)
(*                                                                         *)
(* Not modelled: timestamps (ts, duration), message texts, token counts    *)
(* and latencies.  A response text is identified by the number of the turn *)
(* that produced it.                                                       *)
(***************************************************************************)
EXTENDS Integers, Sequences, FiniteSets, TLC

\* ------------------------------------------------------------------ bounds
MaxStarts == 1          \* start requests issued in one run
MaxStops  == 2          \* stop requests issued in one run
MaxRounds == 2          \* largest max_rounds a start request asks for
MaxSessions == 2        \* websocket connections opened in one run
HubFrames == 1          \* frames a client sends on one connection (HubSpec)
BurstFrames == 6        \* frames the client sends in BurstSpec
RaceFrames == 3         \* frames a client sends on one connection (RaceSpec)
LeaveFrames == 2        \* frames a client sends on one connection (LeaveSpec)
ForgeFrames == 2        \* frames a client sends on one connection (ForgeSpec)
FramesSent == 2         \* frames a client sends on one connection (FramesSpec)
HistoryFrames == 2      \* chat messages the writer sends (HistorySpec)
DownFrames == 2         \* frames a client sends on one connection (DownSpec)
ContentFrames == 2      \* frames a client sends on one connection (ContentSpec)
TypingFrames == 2       \* frames a client sends on one connection (TypingSpec)
MaxTypingTicks == 22    \* clock ticks of TypingSpec: past the 5 s of a typing key
MaxRateRequests == 7    \* requests made in IdleSpec
MaxIdleSeconds == 25    \* seconds of IdleSpec: past the TTL of a bucket and a command's time
IdleStepSeconds == 5    \* seconds between two readings of the clock in IdleSpec
FramesRounds == 1       \* max_rounds of the debate of FramesSpec
MaxFaults == 1          \* Redis commands that raise in one run

\* ------------------------------------------------------- program constants
HistoryCap    == 50     \* ltrim(key, 0, 49)
TurnTimeout   == 15     \* asyncio.wait_for(..., timeout=15)
DaySeconds    == 86400  \* timedelta.seconds is the seconds-of-day component
DefaultDuration == 90   \* DebateConfig.max_duration
MaxRequests   == 5      \* check_rate_limit: max_requests
WindowSeconds == 5      \* check_rate_limit: window_seconds
BucketTTL == WindowSeconds * 2   \* setex(key, window_seconds * 2, ...)
MaxContent    == 1000   \* websocket_endpoint: len(message.content) > 1000
TypingTTL     == 5      \* set_typing_indicator: setex(key, 5, user_name)
OnlineTTL     == 3600   \* add_user_to_room: expire(key, 3600)
RedisTimeout  == 5      \* get_redis_timeout: socket_timeout of the client, seconds
RedisAttempts == 2      \* retry_on_timeout=True: a command that timed out is sent once more
TicksPerSecond == 4     \* resolution of the rate limiter's clock in the model

\* The instants at which the model reads the wall clock (datetime.now(), in
\* seconds after the server's start): the start, one turn timeout later, one
\* day later.
Clock == {0, TurnTimeout, DaySeconds}

Rooms == {"r1", "r2"}
Ids   == 1..MaxStarts   \* debate ids (uuid4 values), in the order they are drawn
GhostId == 0            \* a debate id that no start ever returned

\* self.agents: the registry built by _load_agents_from_config
agents ==
  [a \in {"mock-a", "mock-b", "gpt", "claude"} |->
     [id |-> a,
      provider |-> CASE a = "gpt" -> "openai"
                     [] a = "claude" -> "anthropic"
                     [] OTHER -> "mock"]]

Providers == {agents[a].provider : a \in DOMAIN agents}

\* The start requests the model issues: debates are held in room r1, with
\* the mock agent against the Anthropic agent, or an id outside the registry
\* ("ghost") for agent B or for both; max_rounds is -1 (the request models do
\* not constrain the integer) or MaxRounds; the duration limit either one
\* clock step or the default.  The topic is a text, or (in a websocket frame,
\* whose meta is not validated) a JSON number, which the mock provider is
\* then given as its first prompt.
DebateRooms == {"r1"}
StartConfigs ==
  [room : DebateRooms,
   agent_a_id : {"mock-a"},
   agent_b_id : {"claude"},
   max_rounds : {0 - 1, MaxRounds},
   max_duration : {TurnTimeout, DefaultDuration},
   topic : {"text"}]
  \cup
  [room : DebateRooms,
   agent_a_id : {"mock-a"},
   agent_b_id : {"claude"},
   max_rounds : {MaxRounds},
   max_duration : {TurnTimeout},
   topic : {"number"}]
  \cup
  [room : DebateRooms,
   agent_a_id : {"mock-a", "ghost"},
   agent_b_id : {"ghost"},
   max_rounds : {MaxRounds},
   max_duration : {TurnTimeout},
   topic : {"text"}]

\* ------------------------------------------------------------------ state
VARIABLES
  connected,        \* RedisClient.connected
  stream,           \* room -> frames published on ws:rooms:{room}:stream, in order
  history,          \* room -> the list ws:rooms:{room}:history, newest first
  active_debates,   \* keys of LLMOrchestrator.active_debates
  debate,           \* debate_id -> the debate dict (it outlives its dict entry)
  stats,            \* LLMOrchestrator.stats
  next_id,          \* the next fresh debate id (uuid4)
  now,              \* datetime.now(), in seconds
  th,               \* coroutine -> where it is suspended and its locals
  active_connections, \* ConnectionManager.active_connections: user_id -> websocket
  sess,             \* websocket -> its handler (websocket_endpoint) and what
                    \* has been written to it
  online,           \* room -> the set ws:rooms:{room}:online
  typing,           \* (room, user) -> the value of ws:rooms:{room}:typing:{user}
  bucket,           \* (room, user) -> the value of ratelimit:{room}:{user}
  ticks,            \* time.time(), in ticks of 1/TicksPerSecond s
  allowed,          \* (room, user) -> the instants of the requests allowed so far
  faults,           \* Redis commands that raised so far, and that may still raise
  ttl               \* key -> the instant at which Redis expires it

\* The state of the orchestrator and of the room store it writes through, of
\* the connection hub, and of the rate limiter.
orchvars == <<connected, stream, history, active_debates, debate, stats, next_id,
              now, th>>
hubvars == <<active_connections, sess, online, typing>>
ratevars == <<bucket, ticks, allowed>>
redisvars == <<faults, ttl>>
vars == <<orchvars, hubvars, ratevars, redisvars>>

\* The coroutines: the task created for _run_debate(d), and the handlers of
\* the start and stop requests (POST /debate/start, POST /debate/{id}/stop, or
\* the websocket frames llm_debate_start, llm_debate_stop), numbered in the
\* order the requests arrive.  A handler serves one request.  LifespanT is
\* the application's lifespan (main.py 182-188), suspended at its yield
\* while the server serves.
RunT(d)   == <<"run", d>>
StartT(i) == <<"start", i>>
StopT(j)  == <<"stop", j>>
LifespanT == <<"lifespan", 1>>
StartReqs == 1..MaxStarts
StopReqs  == 1..MaxStops
Threads == {RunT(d) : d \in Ids} \cup {StartT(i) : i \in StartReqs}
             \cup {StopT(j) : j \in StopReqs} \cup {LifespanT}

\* The server takes requests until its lifespan shuts it down.
Serving == th[LifespanT].pc = "yield"

\* The event loop runs for as long as the lifespan has not come to its end:
\* while the server serves and while the shutdown awaits client.close().
LoopRuns == th[LifespanT].pc \in {"yield", "closing"}

\* Handler i takes its request once the handlers before it have taken theirs.
Arrives(i, kind) ==
  /\ Serving
  /\ th[<<kind, i>>].pc = "idle"
  /\ \A k \in 1..(i - 1) : th[<<kind, k>>].pc # "idle"

\* A frame.  type/room/reason are the fields of the same name; action is
\* meta.action; round is meta.current_round of an agent or round message and
\* meta.total_rounds of a stop message; agent/provider name the agent of an
\* agent message (user.name, meta.provider) or of a round message
\* (meta.current_agent).
\* user is user.id of a client message and meta.user_id of a join or leave
\* message; client_id identifies a client message; code and reset_in are
\* meta.code and meta.reset_in of an error frame; users is meta.users of a
\* presence frame; content is the text of a client message, the sequence of
\* its characters (empty for a content that is missing or ""); ts is the
\* frame's timestamp, 0 for every frame made after the server's start.
NoMsg == [type |-> "", action |-> "", room |-> "", debate_id |-> 0,
          reason |-> "", round |-> 0, agent |-> "", provider |-> "",
          user |-> "", client_id |-> 0, code |-> "", reset_in |-> 0, users |-> {},
          content |-> <<>>, ts |-> 0]
\* A frame that was in the room's history before the server started.
OldMsg == [NoMsg EXCEPT !.type = "message", !.action = "old"]

NoCfg == [room |-> "", agent_a_id |-> "", agent_b_id |-> "",
          max_rounds |-> 0, max_duration |-> 0, topic |-> ""]

\* get_agent returns None
NoAgent == [id |-> "", provider |-> "none"]

\* A coroutine.
\*   pc:  "idle" (not started) | "begin" (task created, not yet run)
\*        | "publish" | "lpush" | "ltrim" | "expire" (the Redis command awaited)
\*        | "llm" (the provider call awaited) | "sleep" | "done" | "raised"
\*        | "yield" (the lifespan while the server serves) | "closing" (the
\*        lifespan awaiting client.close()) | "stopped" (the lifespan, once
\*        the event loop has been stopped) | "cancelled" (a task that the
\*        stopping loop has cancelled)
\*   sent: connected as the RedisClient function being awaited found it at
\*        its entry: whether its commands are sent
\*   fn:  whose await it is: "start_debate", "stop_debate", "turn" (the agent
\*        message of _run_debate) or "round" (its round message)
\*   d:   debate_id;  msg: the frame being sent;  ret: where stop_debate returns
\*   current_agent, current_prompt, start_time, llm_response: locals of
\*        _run_debate and call_llm (current_prompt is 0 for the topic and
\*        otherwise the number of the turn whose response it is; llm_response
\*        is "success", "error" or "timeout": the success and error fields of
\*        the dict call_llm returns)
\*   cfg: the config of a start request;  resp: the handler's outcome
IdleThread ==
  [pc |-> "idle", fn |-> "", d |-> 0, msg |-> NoMsg, ret |-> "", sent |-> FALSE,
   current_agent |-> NoAgent, current_prompt |-> 0, start_time |-> 0,
   llm_response |-> "", cfg |-> NoCfg, resp |-> ""]

NoDebate ==
  [room_id |-> "", agent_a |-> NoAgent, agent_b |-> NoAgent, current_round |-> 0,
   max_rounds |-> 0, started_at |-> 0, max_duration |-> 0, is_active |-> FALSE,
   context |-> <<>>, topic |-> ""]

\* The users that connect, and the websocket connections in the order they
\* are accepted.
Users == {"u1", "u2"}
Sessions == 1..MaxSessions

\* A websocket connection and its handler (websocket_endpoint).
\*   pc:  "idle" (not connected) | the Redis command awaited ("sadd",
\*        "expire_online", "smembers", "publish", "lrange", "lpush", "ltrim",
\*        "expire", "rl_get", "rl_setex", "rl_info", "srem", "stop", "typing_setex",
\*        "typing_keys", "typing_get") | "replay" and
\*        "send" (websocket.send_text awaited) | "start" (start_debate awaited)
\*        | "receive" (websocket.receive_text awaited) | "closed"
\*   fn:  what the handler is doing: "connect", "join", "message", "typing",
\*        "disconnect", "leave"
\*   keys, found: get_typing_users' keys still to read and the users found
\*   user, name, room: the query parameters user_id, user_name and room
\*   msg: the frame being sent;  replay: the history frames still to send
\*   t0, rl: check_rate_limit's locals now and the bucket value it writes
\*   late: whether a GET of check_rate_limit was answered more than
\*        socket_timeout after the instant its request read the clock
\*   call: the start request the handler awaits;  nframes: frames received
\*   out: what has been written to the websocket, oldest first; each entry
\*        is the frame, whether it was sent as history replay, and the
\*        connection whose handler sent it
\*   mark: the number of frames published to the room when the connection
\*        was registered
NoBucket == [last_update |-> 0, tokens |-> 0, expires |-> 0]
NoTyping == [name |-> "", expires |-> 0]
NoSession ==
  [pc |-> "idle", fn |-> "", user |-> "", name |-> "", room |-> "", msg |-> NoMsg,
   replay |-> <<>>, t0 |-> 0, rl |-> NoBucket, call |-> 0, nframes |-> 0,
   keys |-> {}, found |-> {}, out |-> <<>>, mark |-> 0, late |-> FALSE]

RateKeys == Rooms \X Users

\* The history a room holds when the server starts (the list lives in Redis):
\* room r1 is one frame short of the cap, every other room is empty.
\* The list is newest first: its i-th entry was made i instants before the start.
InitHistory(r) ==
  IF r = "r1" THEN [i \in 1..(HistoryCap - 1) |-> [OldMsg EXCEPT !.ts = 0 - i]] ELSE <<>>

\* The keys to which the code gives a time to live, and the value of ttl for
\* a key that has none (or does not exist).
TTLKeys == {"history", "online"} \X Rooms
NoTTL == 0 - 1

\* The history of r1 got its time to live with its newest entry, one instant
\* before the start.
InitTTL(k) == IF k = <<"history", "r1">> THEN DaySeconds - 1 ELSE NoTTL

Boot ==
  /\ stream = [r \in Rooms |-> <<>>]
  /\ history = [r \in Rooms |-> InitHistory(r)]
  /\ active_debates = {}
  /\ debate = [d \in Ids |-> NoDebate]
  /\ stats = [total_debates |-> 0, completed_debates |-> 0,
              errors_by_provider |-> [p \in Providers |-> 0]]
  /\ next_id = 1
  /\ now = 0
  /\ th = [t \in Threads |->
             IF t = LifespanT THEN [IdleThread EXCEPT !.pc = "yield"] ELSE IdleThread]
  /\ ttl = [k \in TTLKeys |-> InitTTL(k)]
  /\ active_connections = [u \in Users |-> 0]
  /\ sess = [s \in Sessions |-> NoSession]
  /\ online = [r \in Rooms |-> {}]
  /\ bucket = [k \in RateKeys |-> NoBucket]
  /\ ticks = 0
  /\ allowed = [k \in RateKeys |-> <<>>]
  /\ typing = [k \in RateKeys |-> NoTyping]

\* The server has started and RedisClient.connect has reached the backplane.
Init == connected = TRUE /\ faults = [raised |-> 0, may |-> MaxFaults] /\ Boot

\* ... and Redis answers every command of the run.
CalmInit == connected = TRUE /\ faults = [raised |-> 0, may |-> 0] /\ Boot

\* The server has started and RedisClient.connect has failed.
DownInit == connected = FALSE /\ faults = [raised |-> 0, may |-> MaxFaults] /\ Boot

\* ----------------------------------------------------------- redis_client
\* What the client can answer a command that was sent: the reply ("ok") or an
\* exception ("error"), which the function's except clause catches.  A
\* function that found connected false sends nothing.
Answers(sent) == IF sent /\ faults.may > 0 THEN {"ok", "error"} ELSE {"ok"}

\* The command of this step is answered with a.
answered(sent, a) ==
  /\ a \in Answers(sent)
  /\ faults' = IF a = "error"
                THEN [raised |-> faults.raised + 1, may |-> faults.may - 1]
                ELSE faults

\* Step A of a scenario in which the command that A awaits does not raise.
Calm(A) == A /\ faults' = faults

\* publish_to_room: PUBLISH on the room's channel; nothing is published when
\* the function found connected false (line 52) or PUBLISH raises (line 58)
publish_to_room(s, msg, sent, a) ==
  IF sent /\ a = "ok" THEN [s EXCEPT ![msg.room] = Append(@, msg)] ELSE s

\* add_message_to_history, first command: LPUSH
history_lpush(h, msg, sent, a) ==
  IF sent /\ a = "ok" THEN [h EXCEPT ![msg.room] = <<msg>> \o @] ELSE h

\* add_message_to_history, second command: LTRIM key 0 49
history_ltrim(h, room, sent, a) ==
  IF sent /\ a = "ok"
    THEN [h EXCEPT ![room] = IF Len(@) > HistoryCap THEN SubSeq(@, 1, HistoryCap) ELSE @]
    ELSE h

\* add_message_to_history, third command: EXPIRE key 86400, done at the
\* instant now on a list that exists
history_expire(e, room, sent, a) ==
  IF sent /\ a = "ok" /\ history[room] # <<>>
    THEN [e EXCEPT ![<<"history", room>>] = now + DaySeconds]
    ELSE e

\* add_message_to_history comes to its end with the answer a to the command
\* awaited at pc: EXPIRE is answered, or LPUSH or LTRIM raises and the except
\* clause (lines 83-84) leaves out the commands that follow.
add_to_history_ends(pc, sent, a) ==
  \/ pc = "expire"
  \/ pc \in {"lpush", "ltrim"} /\ sent /\ a = "error"

\* ... and what Redis holds then: the time to live is set by an EXPIRE that
\* is answered.
add_to_history_end(pc, room, sent, a) ==
  /\ add_to_history_ends(pc, sent, a)
  /\ answered(sent, a)
  /\ ttl' = IF pc = "expire" THEN history_expire(ttl, room, sent, a) ELSE ttl

\* ------------------------------------------------------------ orchestrator
\* get_agent: the registry entry, or None
get_agent(agent_id) ==
  IF agent_id \in DOMAIN agents THEN agents[agent_id] ELSE NoAgent

\* timedelta.seconds
Seconds(delta) == delta % DaySeconds

start_message(room, id, cfg) ==
  [NoMsg EXCEPT !.type = "system", !.action = "llm_debate_started", !.room = room,
                !.debate_id = id, !.round = cfg.max_rounds]

end_message(id, reason) ==
  [NoMsg EXCEPT !.type = "system", !.action = "llm_debate_stopped",
                !.room = debate[id].room_id, !.debate_id = id,
                !.round = debate[id].current_round, !.reason = reason]

agent_message(id, agent) ==
  [NoMsg EXCEPT !.type = "message", !.room = debate[id].room_id,
                !.debate_id = id, !.round = debate[id].current_round + 1,
                !.agent = agent.id, !.provider = agent.provider]

round_message(id, round, agent) ==
  [NoMsg EXCEPT !.type = "system", !.action = "llm_debate_round",
                !.room = debate[id].room_id, !.debate_id = id, !.round = round,
                !.agent = agent.id]

\* Mutant of agents_found: the lookup of agent B is not tested.
agents_found_a_only(cfg) == get_agent(cfg.agent_a_id) # NoAgent

\* start_debate, lines 300-306: both lookups succeed
agents_found(cfg) ==
  /\ get_agent(cfg.agent_a_id) # NoAgent
  /\ get_agent(cfg.agent_b_id) # NoAgent

\* start_debate, lines 289-306, when a lookup fails: ValueError.  The HTTP
\* handler answers 400, the websocket handler sends an error frame with code
\* debate_start_failed to the caller.
start_debate_missing_agent(i, cfg) ==
  /\ Arrives(i, "start")
  /\ ~agents_found(cfg)
  /\ th' = [th EXCEPT ![StartT(i)] =
              [IdleThread EXCEPT !.pc = "raised", !.cfg = cfg, !.resp = "debate_start_failed"]]
  /\ UNCHANGED <<connected, stream, history, active_debates, debate, stats,
                 next_id, now, redisvars>>

\* start_debate, lines 289-346: register the debate, count it, build the start
\* message and await its publication.
start_debate(i, cfg) ==
  /\ Arrives(i, "start")
  /\ agents_found(cfg)
  /\ LET id == next_id IN
       /\ debate' = [debate EXCEPT ![id] =
            [room_id |-> cfg.room,
             agent_a |-> get_agent(cfg.agent_a_id),
             agent_b |-> get_agent(cfg.agent_b_id),
             current_round |-> 0,
             max_rounds |-> cfg.max_rounds,
             started_at |-> now,
             max_duration |-> cfg.max_duration,
             is_active |-> TRUE,
             context |-> <<>>,
             topic |-> cfg.topic]]
       /\ active_debates' = active_debates \cup {id}
       /\ stats' = [stats EXCEPT !.total_debates = @ + 1]
       /\ next_id' = next_id + 1
       /\ th' = [th EXCEPT ![StartT(i)] =
            [IdleThread EXCEPT !.pc = "publish", !.fn = "start_debate", !.d = id,
                               !.sent = connected,
                               !.cfg = cfg, !.msg = start_message(cfg.room, id, cfg)]]
  /\ UNCHANGED <<connected, stream, history, now, redisvars>>

publish_message_stores_all(t) ==
  /\ th[t].pc = "publish"
  /\ \E a \in {"ok", "error"} :
       /\ answered(th[t].sent, a)
       /\ stream' = publish_to_room(stream, th[t].msg, th[t].sent, a)
  /\ th' = [th EXCEPT ![t].pc = "lpush", ![t].sent = connected]
  /\ UNCHANGED <<connected, history, active_debates, debate, stats, next_id, now, ttl>>

\* await storage.publish_message(room, msg) returns, the frame published or
\* not.  The round message is only published (then asyncio.sleep(2)); every
\* other frame goes on to add_to_history, which tests connected.
publish_message(t) ==
  /\ th[t].pc = "publish"
  /\ \E a \in {"ok", "error"} :
       /\ answered(th[t].sent, a)
       /\ stream' = publish_to_room(stream, th[t].msg, th[t].sent, a)
  /\ th' = [th EXCEPT ![t].pc = IF th[t].fn = "round" THEN "sleep" ELSE "lpush",
                      ![t].sent = connected]
  /\ UNCHANGED <<connected, history, active_debates, debate, stats, next_id, now, ttl>>

\* add_to_history: await client.lpush returns.  (When it raises,
\* add_to_history ends and its caller goes on in the same step: see
\* add_to_history_end and the actions that use it.)
add_to_history_lpush(t) ==
  /\ th[t].pc = "lpush"
  /\ history' = history_lpush(history, th[t].msg, th[t].sent, "ok")
  /\ th' = [th EXCEPT ![t].pc = "ltrim"]
  /\ UNCHANGED <<connected, stream, active_debates, debate, stats, next_id, now,
                 redisvars>>

\* add_to_history: await client.ltrim returns (or raises, as for lpush)
add_to_history_ltrim(t) ==
  /\ th[t].pc = "ltrim"
  /\ history' = history_ltrim(history, th[t].msg.room, th[t].sent, "ok")
  /\ th' = [th EXCEPT ![t].pc = "expire"]
  /\ UNCHANGED <<connected, stream, active_debates, debate, stats, next_id, now,
                 redisvars>>

\* start_debate, lines 347-353: add_to_history returns, the turn loop is
\* created as a task and the debate id is returned.
start_debate_return(i) ==
  LET t == StartT(i) IN
  /\ th[t].fn = "start_debate"
  /\ \E a \in {"ok", "error"} :
       add_to_history_end(th[t].pc, th[t].msg.room, th[t].sent, a)
  /\ th' = [th EXCEPT ![t] = [@ EXCEPT !.pc = "done", !.resp = "started"],
                      ![RunT(th[t].d)] = [IdleThread EXCEPT !.pc = "begin", !.d = th[t].d]]
  /\ UNCHANGED <<connected, stream, history, active_debates, debate, stats,
                 next_id, now>>

\* Where a coroutine continues when stop_debate returns to it.
\*   ret = "resp":  the handler answers {status: stopped}
\*   ret = "break": _run_debate line 459; lines 471-474 then call stop_debate for
\*                  an id that is no longer in active_debates, which does nothing
\*   ret = "end":   _run_debate lines 472/474, the task ends
stop_returned(rec, ret) ==
  IF ret = "resp" THEN [rec EXCEPT !.pc = "done", !.resp = "stopped"]
                  ELSE [rec EXCEPT !.pc = "done"]

\* Where it continues when `del self.active_debates[debate_id]` raises KeyError.
\*   ret = "resp":  the exception leaves the handler
\*   ret = "break": caught at line 465; stop_debate(id, "error") does nothing
\*   ret = "end":   the exception ends the task
stop_raised(rec, ret) ==
  IF ret = "resp" THEN [rec EXCEPT !.pc = "raised", !.resp = "KeyError"]
  ELSE IF ret = "break" THEN [rec EXCEPT !.pc = "done"]
  ELSE [rec EXCEPT !.pc = "raised"]

stop_debate_present_never(id) == FALSE

\* stop_debate, line 356
stop_debate_present(id) == id \in active_debates

\* stop_debate, lines 355-377, called by coroutine t.
\* rec is the caller's frame, with the locals it has set so far.
stop_debate_enter(t, rec, id, reason, ret) ==
  IF stop_debate_present(id)
    THEN /\ debate' = [debate EXCEPT ![id].is_active = FALSE]
         /\ th' = [th EXCEPT ![t] =
              [rec EXCEPT !.pc = "publish", !.fn = "stop_debate", !.d = id,
                          !.sent = connected,
                          !.ret = ret, !.msg = end_message(id, reason)]]
    ELSE /\ UNCHANGED debate
         /\ th' = [th EXCEPT ![t] =
              stop_returned([rec EXCEPT !.fn = "", !.d = id, !.ret = ret, !.msg = NoMsg], ret)]

\* POST /debate/{id}/stop, or a client frame with action llm_debate_stop
stop_debate(j, id) ==
  /\ Arrives(j, "stop")
  /\ stop_debate_enter(StopT(j), th[StopT(j)], id, "manual", "resp")
  /\ UNCHANGED <<connected, stream, history, active_debates, stats, next_id, now,
                 redisvars>>

\* stop_debate, lines 378-383: add_to_history returns
stop_debate_finish(t) ==
  /\ th[t].fn = "stop_debate"
  /\ \E a \in {"ok", "error"} :
       add_to_history_end(th[t].pc, th[t].msg.room, th[t].sent, a)
  /\ stats' = [stats EXCEPT !.completed_debates = @ + 1]
  /\ IF th[t].d \in active_debates
       THEN /\ active_debates' = active_debates \ {th[t].d}
            /\ th' = [th EXCEPT ![t] = stop_returned(@, th[t].ret)]
       ELSE /\ UNCHANGED active_debates
            /\ th' = [th EXCEPT ![t] = stop_raised(@, th[t].ret)]
  /\ UNCHANGED <<connected, stream, history, debate, next_id, now>>

\* Mutant of while_condition: one round too many.
while_condition_off_by_one(id) ==
  /\ debate[id].is_active
  /\ debate[id].current_round <= debate[id].max_rounds
  /\ Seconds(now - debate[id].started_at) < debate[id].max_duration

\* _run_debate, the condition of the while loop (lines 392-394)
while_condition(id) ==
  /\ debate[id].is_active
  /\ debate[id].current_round < debate[id].max_rounds
  /\ Seconds(now - debate[id].started_at) < debate[id].max_duration

\* Mutant of is_agent_a_turn: agent B opens the debate.
is_agent_a_turn_odd(id) == debate[id].current_round % 2 = 1

\* is_agent_a_turn, current_agent (lines 396-397)
is_agent_a_turn(id) == debate[id].current_round % 2 = 0
current_agent(id) == IF is_agent_a_turn(id) THEN debate[id].agent_a ELSE debate[id].agent_b

\* _run_debate, lines 392-401 and 470-474: test the loop condition; either
\* start a turn (call_llm awaits the provider) or leave the loop.
run_debate_loop(t, id) ==
  IF while_condition(id)
    THEN /\ th' = [th EXCEPT ![t] =
              [@ EXCEPT !.pc = "llm", !.fn = "call_llm", !.msg = NoMsg,
                        !.llm_response = "",
                        !.current_agent = current_agent(id),
                        !.start_time = now]]
         /\ UNCHANGED debate
    ELSE IF debate[id].current_round >= debate[id].max_rounds
      THEN stop_debate_enter(t, th[t], id, "max_rounds", "end")
    ELSE IF Seconds(now - debate[id].started_at) >= debate[id].max_duration
      THEN stop_debate_enter(t, th[t], id, "max_duration", "end")
    ELSE /\ th' = [th EXCEPT ![t] = [@ EXCEPT !.pc = "done", !.fn = "", !.msg = NoMsg]]
         /\ UNCHANGED debate

\* _run_debate, lines 385-394: the first step of the task
run_debate_begin(id) ==
  LET t == RunT(id) IN
  /\ th[t].pc = "begin"
  /\ IF id \in active_debates
       THEN run_debate_loop(t, id)
       ELSE /\ th' = [th EXCEPT ![t].pc = "raised"]
            /\ UNCHANGED debate
  /\ UNCHANGED <<connected, stream, history, active_debates, stats, next_id, now,
                 redisvars>>

\* _run_debate, line 455: asyncio.sleep(2) returns and the loop condition is
\* tested again
run_debate_next(id) ==
  LET t == RunT(id) IN
  /\ th[t].pc = "sleep"
  /\ run_debate_loop(t, id)
  /\ UNCHANGED <<connected, stream, history, active_debates, stats, next_id, now,
                 redisvars>>

\* The prompt of the turn that coroutine t is taking: the topic as the start
\* request gave it, or the text of an agent's response.
prompt_of(id, t) == IF th[t].current_prompt = 0 THEN debate[id].topic ELSE "text"

\* The results call_llm can give for an agent and a prompt (lines 120-165).
\* The mock provider is awaited without wait_for; it answers a text, and
\* len(prompt) raises for a number, which `except Exception` (line 153) turns
\* into a failure.  A real provider may answer, raise, or run into the 15 s
\* timeout.
call_results(agent, started, prompt) ==
  IF agent.provider = "mock"
    THEN (IF prompt = "text" THEN {"success"} ELSE {"error"})
    ELSE {"success", "error"} \cup
         (IF now - started >= TurnTimeout THEN {"timeout"} ELSE {})

\* Mutant of failure_reason: the reason of the catch-all handler (line 467).
failure_reason_generic(agent, result) == "error"

\* The reason _run_debate gives stop_debate when call_llm reports a failure
\* of either kind (line 458)
failure_reason(agent, result) == "llm_error_" \o agent.provider

\* call_llm returns (lines 117-165) and _run_debate goes on (lines 403-427 or
\* 456-459).
call_llm_return(id, result) ==
  LET t == RunT(id)
      agent == th[t].current_agent IN
  /\ th[t].pc = "llm"
  /\ result \in call_results(agent, th[t].start_time, prompt_of(id, t))
  /\ IF result = "success"
       THEN /\ th' = [th EXCEPT ![t] =
                 [@ EXCEPT !.pc = "publish", !.fn = "turn", !.llm_response = result,
                           !.sent = connected,
                           !.msg = agent_message(id, agent)]]
            /\ UNCHANGED <<debate, stats>>
       ELSE /\ stats' = [stats EXCEPT !.errors_by_provider[agent.provider] = @ + 1]
            /\ stop_debate_enter(t, [th[t] EXCEPT !.llm_response = result], id,
                                 failure_reason(agent, result), "break")
  /\ UNCHANGED <<connected, stream, history, active_debates, next_id, now, redisvars>>

\* _run_debate, line 433
next_round(round) == round + 1

run_debate_turn_done_keeps_prompt(id) ==
  LET t == RunT(id)
      content == th[t].msg.round IN
  /\ th[t].fn = "turn"
  /\ \E a \in {"ok", "error"} :
       add_to_history_end(th[t].pc, th[t].msg.room, th[t].sent, a)
  /\ debate' = [debate EXCEPT ![id].context = Append(@, content),
                              ![id].current_round = next_round(@)]
  /\ th' = [th EXCEPT ![t] =
       [@ EXCEPT !.pc = "publish", !.fn = "round", !.sent = connected,
                 !.msg = round_message(id, next_round(debate[id].current_round),
                                       th[t].current_agent)]]
  /\ UNCHANGED <<connected, stream, history, active_debates, stats, next_id, now>>

\* _run_debate, lines 428-450: add_to_history returns; record the turn, count
\* the round and await the publication of the round message.
run_debate_turn_done(id) ==
  LET t == RunT(id)
      content == th[t].msg.round IN
  /\ th[t].fn = "turn"
  /\ \E a \in {"ok", "error"} :
       add_to_history_end(th[t].pc, th[t].msg.room, th[t].sent, a)
  /\ debate' = [debate EXCEPT ![id].context = Append(@, content),
                              ![id].current_round = next_round(@)]
  /\ th' = [th EXCEPT ![t] =
       [@ EXCEPT !.pc = "publish", !.fn = "round", !.current_prompt = content, !.sent = connected,
                 !.msg = round_message(id, next_round(debate[id].current_round),
                                       th[t].current_agent)]]
  /\ UNCHANGED <<connected, stream, history, active_debates, stats, next_id, now>>

\* Redis expires key k once the clock reads instant.
expired(k, instant) == ttl[k] # NoTTL /\ instant >= ttl[k]

\* Time passes, whatever is awaited: the next reading of the wall clock is a
\* later instant of Clock, and Redis has expired the keys whose time to live
\* is over by then.
Tick ==
  /\ \E instant \in Clock :
       /\ instant > now
       /\ now' = instant
       /\ history' = [r \in Rooms |->
            IF expired(<<"history", r>>, instant) THEN <<>> ELSE history[r]]
       /\ online' = [r \in Rooms |->
            IF expired(<<"online", r>>, instant) THEN {} ELSE online[r]]
       /\ ttl' = [k \in TTLKeys |-> IF expired(k, instant) THEN NoTTL ELSE ttl[k]]
  /\ UNCHANGED <<connected, stream, active_debates, debate, stats, next_id, th,
                 active_connections, sess, typing, ratevars, faults>>

\* No request is being served.
Quiet ==
  /\ \A i \in StartReqs : th[StartT(i)].pc \in {"idle", "done", "raised"}
  /\ \A j \in StopReqs : th[StopT(j)].pc \in {"idle", "done", "raised"}
  /\ \A s \in Sessions : sess[s].pc \in {"idle", "closed"}

\* The server shuts down: once the requests are served the lifespan resumes
\* from its yield and calls RedisClient.close (main.py 187-188), which tests
\* `self.client and self.connected` (redis_client.py 43) and awaits
\* client.close(); with connected false it returns at once and the lifespan
\* is over.  The tasks of the debates are still running.
close ==
  /\ Serving
  /\ Quiet
  /\ th' = [th EXCEPT ![LifespanT] =
       [@ EXCEPT !.pc = IF connected THEN "closing" ELSE "done", !.sent = connected]]
  /\ UNCHANGED <<connected, stream, history, active_debates, debate, stats, next_id,
                 now, hubvars, ratevars, redisvars>>

\* RedisClient.close, lines 45-49: client.close() returns and connected is
\* set to False, or it raises and connected stays as it is; the lifespan is
\* over.
close_return ==
  /\ th[LifespanT].pc = "closing"
  /\ \E a \in {"ok", "error"} :
       /\ answered(th[LifespanT].sent, a)
       /\ connected' = IF a = "ok" THEN FALSE ELSE connected
  /\ th' = [th EXCEPT ![LifespanT].pc = "done"]
  /\ UNCHANGED <<stream, history, active_debates, debate, stats, next_id, now,
                 hubvars, ratevars, ttl>>

\* A coroutine that has been started and has not come to its end.
Pending(t) == th[t].pc \notin {"idle", "done", "raised", "cancelled", "stopped"}

\* The lifespan is over and the server's coroutine returns (uvicorn.run,
\* main.py 477-484): the event loop is stopped and the tasks still pending
\* are cancelled.  CancelledError is raised where a _run_debate task is
\* suspended; it is no Exception, so no except clause of RedisClient, of
\* call_llm (lines 144-165) or of _run_debate (lines 461-468) catches it and
\* stop_debate is not called: the debate stays in active_debates with
\* is_active true.
cancel_all_tasks ==
  /\ th[LifespanT].pc = "done"
  /\ th' = [t \in Threads |->
       IF t = LifespanT THEN [th[t] EXCEPT !.pc = "stopped"]
       ELSE IF Pending(t) THEN [th[t] EXCEPT !.pc = "cancelled"]
       ELSE th[t]]
  /\ UNCHANGED <<connected, stream, history, active_debates, debate, stats, next_id,
                 now, hubvars, ratevars, redisvars>>

\* The debate machine on its own: a start request and a stop request arrive
\* over HTTP, no websocket is open and no client message is rate-limited.
Next ==
  \/ /\ \E i \in StartReqs, cfg \in StartConfigs : start_debate_missing_agent(i, cfg)
     /\ UNCHANGED <<hubvars, ratevars>>
  \/ /\ \E i \in StartReqs, cfg \in StartConfigs : start_debate(i, cfg)
     /\ UNCHANGED <<hubvars, ratevars>>
  \/ /\ \E t \in Threads : publish_message(t)
     /\ UNCHANGED <<hubvars, ratevars>>
  \/ /\ \E t \in Threads : add_to_history_lpush(t)
     /\ UNCHANGED <<hubvars, ratevars>>
  \/ /\ \E t \in Threads : add_to_history_ltrim(t)
     /\ UNCHANGED <<hubvars, ratevars>>
  \/ /\ \E i \in StartReqs : start_debate_return(i)
     /\ UNCHANGED <<hubvars, ratevars>>
  \/ /\ \E id \in (1..(next_id - 1)) \cup {GhostId} : stop_debate(1, id)
     /\ UNCHANGED <<hubvars, ratevars>>
  \/ /\ \E t \in Threads : stop_debate_finish(t)
     /\ UNCHANGED <<hubvars, ratevars>>
  \/ /\ \E id \in Ids : run_debate_begin(id)
     /\ UNCHANGED <<hubvars, ratevars>>
  \/ /\ \E id \in Ids : run_debate_next(id)
     /\ UNCHANGED <<hubvars, ratevars>>
  \/ /\ \E id \in Ids, res \in {"success", "timeout", "error"} : call_llm_return(id, res)
     /\ UNCHANGED <<hubvars, ratevars>>
  \/ /\ \E id \in Ids : run_debate_turn_done(id)
     /\ UNCHANGED <<hubvars, ratevars>>
  \/ Tick
  \/ close
  \/ close_return
  \/ cancel_all_tasks

Spec == Init /\ [][Next]_vars

\* The same machine when Redis answers every command.
CalmSpec == CalmInit /\ [][Next]_vars

\* ------------------------------------------------------ two stop requests
\* The requests of a run are a start and stop requests that may overlap each
\* other and the debate's own end; Redis answers every command, the clock
\* stands still and the server keeps serving.
StopsNext ==
  \/ /\ \E i \in StartReqs, cfg \in StartConfigs : start_debate_missing_agent(i, cfg)
     /\ UNCHANGED <<hubvars, ratevars>>
  \/ /\ \E i \in StartReqs, cfg \in StartConfigs : start_debate(i, cfg)
     /\ UNCHANGED <<hubvars, ratevars>>
  \/ /\ \E t \in Threads : publish_message(t)
     /\ UNCHANGED <<hubvars, ratevars>>
  \/ /\ \E t \in Threads : add_to_history_lpush(t)
     /\ UNCHANGED <<hubvars, ratevars>>
  \/ /\ \E t \in Threads : add_to_history_ltrim(t)
     /\ UNCHANGED <<hubvars, ratevars>>
  \/ /\ \E i \in StartReqs : start_debate_return(i)
     /\ UNCHANGED <<hubvars, ratevars>>
  \/ /\ \E j \in StopReqs, id \in (1..(next_id - 1)) \cup {GhostId} : stop_debate(j, id)
     /\ UNCHANGED <<hubvars, ratevars>>
  \/ /\ \E t \in Threads : stop_debate_finish(t)
     /\ UNCHANGED <<hubvars, ratevars>>
  \/ /\ \E id \in Ids : run_debate_begin(id)
     /\ UNCHANGED <<hubvars, ratevars>>
  \/ /\ \E id \in Ids : run_debate_next(id)
     /\ UNCHANGED <<hubvars, ratevars>>
  \/ /\ \E id \in Ids, res \in {"success", "error"} : call_llm_return(id, res)
     /\ UNCHANGED <<hubvars, ratevars>>
  \/ /\ \E id \in Ids : run_debate_turn_done(id)
     /\ UNCHANGED <<hubvars, ratevars>>

StopsSpec == CalmInit /\ [][StopsNext]_vars

\* ------------------------------------------------ the debate under fairness

\* A step of the debate machine; the hub and the rate limiter stand still.
FairNext ==
  \/ /\ \E i \in StartReqs, cfg \in StartConfigs : start_debate_missing_agent(i, cfg)
     /\ UNCHANGED <<hubvars, ratevars>>
  \/ /\ \E i \in StartReqs, cfg \in StartConfigs : start_debate(i, cfg)
     /\ UNCHANGED <<hubvars, ratevars>>
  \/ /\ \E t \in Threads : publish_message(t)
     /\ UNCHANGED <<hubvars, ratevars>>
  \/ /\ \E t \in Threads : add_to_history_lpush(t)
     /\ UNCHANGED <<hubvars, ratevars>>
  \/ /\ \E t \in Threads : add_to_history_ltrim(t)
     /\ UNCHANGED <<hubvars, ratevars>>
  \/ /\ \E i \in StartReqs : start_debate_return(i)
     /\ UNCHANGED <<hubvars, ratevars>>
  \/ /\ \E id \in (1..(next_id - 1)) \cup {GhostId} : stop_debate(1, id)
     /\ UNCHANGED <<hubvars, ratevars>>
  \/ /\ \E t \in Threads : stop_debate_finish(t)
     /\ UNCHANGED <<hubvars, ratevars>>
  \/ /\ \E id \in Ids : run_debate_begin(id)
     /\ UNCHANGED <<hubvars, ratevars>>
  \/ /\ \E id \in Ids : run_debate_next(id)
     /\ UNCHANGED <<hubvars, ratevars>>
  \/ /\ \E id \in Ids, res \in {"success", "timeout", "error"} : call_llm_return(id, res)
     /\ UNCHANGED <<hubvars, ratevars>>
  \/ /\ \E id \in Ids : run_debate_turn_done(id)
     /\ UNCHANGED <<hubvars, ratevars>>
  \/ Tick
  \/ close
  \/ close_return
  \/ cancel_all_tasks

\* While the event loop runs it runs every coroutine that is ready: a Redis
\* command that was sent is answered, a sleep ends, and a provider call
\* returns, fails or is cut by wait_for's timeout.  Nothing obliges a request
\* to arrive, and once the lifespan is over nothing obliges a task to be
\* resumed before the loop is stopped.
Fairness ==
  /\ \A t \in Threads :
       /\ WF_vars(LoopRuns /\ publish_message(t) /\ UNCHANGED <<hubvars, ratevars>>)
       /\ WF_vars(LoopRuns /\ add_to_history_lpush(t) /\ UNCHANGED <<hubvars, ratevars>>)
       /\ WF_vars(LoopRuns /\ add_to_history_ltrim(t) /\ UNCHANGED <<hubvars, ratevars>>)
       /\ WF_vars(LoopRuns /\ stop_debate_finish(t) /\ UNCHANGED <<hubvars, ratevars>>)
  /\ \A i \in StartReqs :
       WF_vars(LoopRuns /\ start_debate_return(i) /\ UNCHANGED <<hubvars, ratevars>>)
  /\ \A id \in Ids :
       /\ WF_vars(LoopRuns /\ run_debate_begin(id) /\ UNCHANGED <<hubvars, ratevars>>)
       /\ WF_vars(LoopRuns /\ run_debate_next(id) /\ UNCHANGED <<hubvars, ratevars>>)
       /\ WF_vars(LoopRuns /\ run_debate_turn_done(id) /\ UNCHANGED <<hubvars, ratevars>>)
       /\ WF_vars(/\ LoopRuns
                  /\ \E res \in {"success", "timeout", "error"} : call_llm_return(id, res)
                  /\ UNCHANGED <<hubvars, ratevars>>)

FairSpec == CalmInit /\ [][FairNext]_vars /\ Fairness

\* ------------------------------------------------------- the rate limiter
\* Time is counted in ticks, TicksPerSecond to the second, and tokens in units
\* of 1/TicksPerSecond of a token, so that the bucket's arithmetic is exact.

Reverse(seq) == [i \in 1..Len(seq) |-> seq[Len(seq) + 1 - i]]
Min(a, b) == IF a <= b THEN a ELSE b
Max(a, b) == IF a >= b THEN a ELSE b

OneToken == TicksPerSecond
Capacity == MaxRequests * OneToken

\* GET key at instant t: the value, if the key exists and has not expired.
bucket_present(k, t) == t < bucket[k].expires

\* check_rate_limit, lines 199-202: (last_update, tokens) read from the key,
\* or (now, max_requests) when the key is absent
bucket_or_full(k, t, t0) ==
  IF bucket_present(k, t)
    THEN [last_update |-> bucket[k].last_update, tokens |-> bucket[k].tokens]
    ELSE [last_update |-> t0, tokens |-> Capacity]

tokens_to_add_doubled(time_passed) == (2 * time_passed * MaxRequests) \div WindowSeconds

\* check_rate_limit, line 205: time_passed / window_seconds * max_requests
tokens_to_add(time_passed) == (time_passed * MaxRequests) \div WindowSeconds

\* check_rate_limit, lines 204-206: the tokens in the bucket at t0, the
\* instant read at line 193, from what GET returned at instant t
current_tokens(k, t, t0) ==
  LET b == bucket_or_full(k, t, t0)
  IN  Min(Capacity, b.tokens + tokens_to_add(t0 - b.last_update))

rate_allowed_strict(k, t, t0) == current_tokens(k, t, t0) > OneToken

\* check_rate_limit, line 208
rate_allowed(k, t, t0) == current_tokens(k, t, t0) >= OneToken

bucket_written_undecremented(tokens, t0) ==
  [last_update |-> t0, tokens |-> tokens, expires |-> 0]

\* check_rate_limit, lines 209-213: the value handed to SETEX
bucket_written(tokens, t0) ==
  [last_update |-> t0, tokens |-> tokens - OneToken, expires |-> 0]

setex_one_second(value, t) == [value EXCEPT !.expires = t + TicksPerSecond]

\* SETEX key 10 value, done at instant t
setex(value, t) == [value EXCEPT !.expires = t + BucketTTL * TicksPerSecond]

\* get_rate_limit_info, lines 233-244: reset_in, in ticks, computed at the
\* instant t0 from what GET returned at instant t
reset_in(k, t, t0) ==
  IF bucket_present(k, t)
    THEN Max(0, (OneToken - bucket[k].tokens) * WindowSeconds
                  - (t0 - bucket[k].last_update))
    ELSE 0

\* ------------------------------------------------------ the websocket hub
\* main.py: ConnectionManager and websocket_endpoint.  broadcast_to_room only
\* publishes on the room's channel; subscribe_to_room is called nowhere, so
\* the only writes to a websocket are those of send_personal_message.

debvars == <<active_debates, debate, stats, next_id, now, th>>

\* json.dumps of the presence record {"id": user_id, "name": user_name} and
\* of the bare user_id
json_dumps_user(u, name) == <<"object", u, name>>
json_dumps_id(u) == <<"string", u>>

presence_message(room, members) ==
  [NoMsg EXCEPT !.type = "presence", !.room = room,
                !.users = {m[2] : m \in members}]
join_message(room, u) ==
  [NoMsg EXCEPT !.type = "system", !.action = "user_joined", !.room = room, !.user = u]
leave_message(room, u) ==
  [NoMsg EXCEPT !.type = "system", !.action = "user_left", !.room = room, !.user = u]
error_message(room, code, reset) ==
  [NoMsg EXCEPT !.type = "error", !.room = room, !.code = code, !.reset_in = reset]
confirmed_message(room, d) ==
  [NoMsg EXCEPT !.type = "system", !.action = "llm_debate_confirmed", !.room = room,
                !.debate_id = d]

\* The n-th frame of connection s, a well-formed chat message that names the
\* room and the user of the connection.
client_message(s, n) ==
  [NoMsg EXCEPT !.type = "message", !.room = sess[s].room, !.user = sess[s].user,
                !.client_id = 10 * s + n, !.content = <<"h", "i">>]

ErrorCodes == {"invalid_json", "invalid_payload", "message_too_long"}

\* A handler of a connection runs while the server serves, and connected
\* changes only at shutdown: a function of RedisClient that the handler
\* calls sends its commands iff connected holds.  a is the answer to the
\* command.
publish_on_unguarded(str, room, msg, a) ==
  IF a = "ok" THEN [str EXCEPT ![room] = Append(@, msg)] ELSE str

\* publish_to_room(room_id, message) and lpush on the history of room_id
publish_on(str, room, msg, a) ==
  IF connected /\ a = "ok" THEN [str EXCEPT ![room] = Append(@, msg)] ELSE str
lpush_on(h, room, msg, a) ==
  IF connected /\ a = "ok" THEN [h EXCEPT ![room] = <<msg>> \o @] ELSE h

get_room_history_unreversed(room, a) ==
  IF connected /\ a = "ok"
    THEN SubSeq(history[room], 1, Min(Len(history[room]), HistoryCap))
    ELSE <<>>

\* get_room_history, lines 86-96, and history[-50:] of websocket_endpoint:
\* the entries LRANGE returns, oldest first; none when LRANGE raises
get_room_history(room, a) ==
  IF connected /\ a = "ok"
    THEN Reverse(SubSeq(history[room], 1, Min(Len(history[room]), HistoryCap)))
    ELSE <<>>

\* What a websocket has been sent: the frame, whether it was sent as history
\* replay, and the connection whose handler sent it.
Entry(msg, isreplay, s) == [frame |-> msg, replay |-> isreplay, from |-> s]

\* send_personal_message(message, user_id), lines 120-125, called by the
\* handler of connection s: the frame is written to the websocket registered
\* for the user and the handler awaits the send at pcs; if none is registered
\* nothing is awaited and the handler goes on to pcn.  ss is sess with the
\* handler's own updates.
send_personal_message(ss, s, msg, isreplay, pcs, pcn) ==
  LET target == active_connections[sess[s].user] IN
  IF target # 0
    THEN [ss EXCEPT ![target].out = Append(@, Entry(msg, isreplay, s)), ![s].pc = pcs]
    ELSE [ss EXCEPT ![s].pc = pcn]

\* websocket_endpoint, lines 311-327: the replay loop over frames, up to its
\* next await; after the loop the join message is built and its publication
\* awaited.
replay_next(s, frames) ==
  IF frames = <<>> \/ active_connections[sess[s].user] = 0
    THEN [sess EXCEPT ![s].pc = "publish", ![s].fn = "join", ![s].replay = <<>>,
                      ![s].msg = join_message(sess[s].room, sess[s].user)]
    ELSE send_personal_message([sess EXCEPT ![s].replay = Tail(frames)], s,
                               Head(frames), TRUE, "replay", "replay")

\* A client opens a websocket with user_id u, user_name name and room r:
\* lines 291-307 and connect, lines 104-105.  accept() returns and the
\* connection takes the user's registry entry.
ws_connect_as(s, u, name, r) ==
  /\ Serving
  /\ sess[s].pc = "idle"
  /\ \A k \in 1..(s - 1) : sess[k].pc # "idle"
  /\ active_connections' = [active_connections EXCEPT ![u] = s]
  /\ sess' = [sess EXCEPT ![s] =
       [NoSession EXCEPT !.pc = "sadd", !.fn = "connect", !.user = u,
                         !.name = name, !.room = r, !.mark = Len(stream[r])]]
  /\ UNCHANGED <<redisvars, orchvars, online, ratevars>>
  /\ UNCHANGED typing

\* ... with the default user_name
ws_connect(s, u, r) == ws_connect_as(s, u, "Guest", r)

\* add_user_to_room: sadd returns and expire is awaited, or sadd raises
\* (lines 107-108) and broadcast_presence awaits smembers
ws_sadd(s) ==
  /\ sess[s].pc = "sadd"
  /\ \E a \in {"ok", "error"} :
       /\ answered(connected, a)
       /\ online' = IF connected /\ a = "ok"
                      THEN [online EXCEPT ![sess[s].room] =
                              @ \cup {json_dumps_user(sess[s].user, sess[s].name)}]
                      ELSE online
       /\ sess' = [sess EXCEPT ![s].pc = IF a = "ok" THEN "expire_online" ELSE "smembers"]
  /\ UNCHANGED <<orchvars, active_connections, ratevars, ttl>>
  /\ UNCHANGED typing

\* add_user_to_room: expire(key, 3600) returns or raises; broadcast_presence
\* awaits smembers
ws_expire_online(s) ==
  /\ sess[s].pc = "expire_online"
  /\ \E a \in {"ok", "error"} :
       /\ answered(connected, a)
       /\ ttl' = IF connected /\ a = "ok" /\ online[sess[s].room] # {}
                   THEN [ttl EXCEPT ![<<"online", sess[s].room>>] = now + OnlineTTL]
                   ELSE ttl
  /\ sess' = [sess EXCEPT ![s].pc = "smembers"]
  /\ UNCHANGED <<orchvars, active_connections, online, ratevars>>
  /\ UNCHANGED typing

\* broadcast_presence, lines 131-146: get_online_users has the members that
\* smembers returns, or none when it raises (lines 129-131); the presence
\* frame is built and its publication awaited
ws_smembers(s) ==
  /\ sess[s].pc = "smembers"
  /\ \E a \in {"ok", "error"} :
       /\ answered(connected, a)
       /\ sess' = [sess EXCEPT ![s].pc = "publish",
                               ![s].msg = presence_message(sess[s].room,
                                            IF connected /\ a = "ok"
                                              THEN online[sess[s].room] ELSE {})]
  /\ UNCHANGED <<orchvars, active_connections, online, ratevars, ttl>>
  /\ UNCHANGED typing

\* broadcast_to_room: publish returns or raises.
\*   fn = "connect":    presence published, get_history awaits lrange
\*   fn = "join":       the join message goes on to add_to_history
\*   fn = "message":    a client message, stored before; back to the loop
\*   fn = "typing":     a typing frame; back to the loop
\*   fn = "disconnect": presence published; the leave message is built and
\*                      its publication awaited
\*   fn = "leave":      the leave message goes on to add_to_history
ws_publish(s) ==
  /\ sess[s].pc = "publish"
  /\ \E a \in {"ok", "error"} :
       /\ answered(connected, a)
       /\ stream' = publish_on(stream, sess[s].room, sess[s].msg, a)
  /\ sess' = [sess EXCEPT ![s] =
       CASE sess[s].fn = "connect"    -> [@ EXCEPT !.pc = "lrange"]
         [] sess[s].fn = "join"       -> [@ EXCEPT !.pc = "lpush"]
         [] sess[s].fn = "message"    -> [@ EXCEPT !.pc = "receive"]
         [] sess[s].fn = "typing"     -> [@ EXCEPT !.pc = "receive"]
         [] sess[s].fn = "disconnect" ->
              [@ EXCEPT !.fn = "leave",
                        !.msg = leave_message(sess[s].room, sess[s].user)]
         [] sess[s].fn = "leave"      -> [@ EXCEPT !.pc = "lpush"]]
  /\ UNCHANGED <<connected, history, debvars, active_connections, online, ratevars,
                 ttl>>
  /\ UNCHANGED typing

\* get_history: lrange returns or raises; the replay loop starts
ws_lrange(s) ==
  /\ sess[s].pc = "lrange"
  /\ \E a \in {"ok", "error"} :
       /\ answered(connected, a)
       /\ sess' = replay_next(s, get_room_history(sess[s].room, a))
  /\ UNCHANGED <<orchvars, active_connections, online, ratevars, ttl>>
  /\ UNCHANGED typing

\* send_text of a replayed frame returns; the replay loop goes on
ws_replay(s) ==
  /\ sess[s].pc = "replay"
  /\ sess' = replay_next(s, sess[s].replay)
  /\ UNCHANGED <<redisvars, orchvars, active_connections, online, ratevars>>
  /\ UNCHANGED typing

\* add_to_history: lpush and ltrim return (ws_lpush, ws_ltrim); the function
\* ends and the handler goes on (ws_expire) when expire is answered or when
\* one of the three commands raises, the commands after it left out.
\*   fn = "join":    the loop awaits the client's next frame
\*   fn = "message": the message is then published
\*   fn = "leave":   the handler ends
ws_lpush(s) ==
  /\ sess[s].pc = "lpush"
  /\ history' = lpush_on(history, sess[s].room, sess[s].msg, "ok")
  /\ sess' = [sess EXCEPT ![s].pc = "ltrim"]
  /\ UNCHANGED <<connected, stream, debvars, active_connections, online, ratevars,
                 redisvars>>
  /\ UNCHANGED typing

ws_ltrim(s) ==
  /\ sess[s].pc = "ltrim"
  /\ history' = history_ltrim(history, sess[s].room, connected, "ok")
  /\ sess' = [sess EXCEPT ![s].pc = "expire"]
  /\ UNCHANGED <<connected, stream, debvars, active_connections, online, ratevars,
                 redisvars>>
  /\ UNCHANGED typing

ws_expire(s) ==
  /\ \E a \in {"ok", "error"} :
       add_to_history_end(sess[s].pc, sess[s].room, connected, a)
  /\ sess' = [sess EXCEPT ![s].pc =
       CASE sess[s].fn = "join"    -> "receive"
         [] sess[s].fn = "message" -> "publish"
         [] sess[s].fn = "leave"   -> "closed"]
  /\ UNCHANGED <<orchvars, active_connections, online, ratevars>>
  /\ UNCHANGED typing

\* ------------------------------------------------------- sanitize_content
\* A text is the sequence of its characters.
Lowercase ==
  <<"a", "b", "c", "d", "e", "f", "g", "h", "i", "j", "k", "l", "m", "n", "o", "p",
    "q", "r", "s", "t", "u", "v", "w", "x", "y", "z">>
Uppercase ==
  <<"A", "B", "C", "D", "E", "F", "G", "H", "I", "J", "K", "L", "M", "N", "O", "P",
    "Q", "R", "S", "T", "U", "V", "W", "X", "Y", "Z">>
Digits == {"0", "1", "2", "3", "4", "5", "6", "7", "8", "9"}
Range(seq) == {seq[i] : i \in DOMAIN seq}

\* \w, \s and the quotes of ["\'], on ASCII text.  For a str pattern \s is
\* the white space of Unicode, which in ASCII is the space, the characters 9
\* to 13 (\t, \n, vertical tab, \f, \r) and the separators 28 to 31.
VerticalTab == ""
Separators == {"", "", "", ""}
IsWord(c) == c \in Range(Lowercase) \cup Range(Uppercase) \cup Digits \cup {"_"}
IsSpace(c) == c \in {" ", "\t", "\n", "\r", "\f", VerticalTab} \cup Separators
IsQuote(c) == c \in {"\"", "'"}

\* flags=re.IGNORECASE: a character as the pattern's lower-case literal sees it
ignorecase(c) ==
  IF c \in Range(Uppercase)
    THEN Lowercase[CHOOSE i \in DOMAIN Uppercase : Uppercase[i] = c]
    ELSE c

SetMin(S) == CHOOSE x \in S : \A y \in S : x <= y

\* The literal lit of a pattern matches the text at position i.
matches_at(text, i, lit) ==
  /\ i + Len(lit) - 1 <= Len(text)
  /\ \A k \in DOMAIN lit : ignorecase(text[i + k - 1]) = lit[k]

ScriptOpen  == <<"<", "s", "c", "r", "i", "p", "t">>
ScriptClose == <<"<", "/", "s", "c", "r", "i", "p", "t", ">">>

\* <script\b[^<]*(?:(?!<\/script>)<[^<]*)*<\/script> matched at position i:
\* the position of the match's last character, 0 when it does not match.
\* The body cannot pass the start of a </script>, so the match ends with the
\* first one after the opening.
script_end(text, i) ==
  IF /\ matches_at(text, i, ScriptOpen)
     /\ i + 7 <= Len(text)
     /\ ~IsWord(text[i + 7])
    THEN LET ends == {j \in (i + 7)..Len(text) : matches_at(text, j, ScriptClose)}
         IN IF ends = {} THEN 0 ELSE SetMin(ends) + Len(ScriptClose) - 1
    ELSE 0

\* on\w+=\s*["\'][^"\']*["\'] matched at position i: the position of the
\* match's last character, 0 when it does not match.
handler_end(text, i) ==
  IF ~matches_at(text, i, <<"o", "n">>) THEN 0
  ELSE
    LET eqs == {j \in (i + 3)..Len(text) :
                  text[j] = "=" /\ \A k \in (i + 2)..(j - 1) : IsWord(text[k])}
    IN IF eqs = {} THEN 0
       ELSE
         LET opens == {k \in (SetMin(eqs) + 1)..Len(text) : ~IsSpace(text[k])}
         IN IF opens = {} THEN 0
            ELSE IF ~IsQuote(text[SetMin(opens)]) THEN 0
            ELSE
              LET closes == {k \in (SetMin(opens) + 1)..Len(text) : IsQuote(text[k])}
              IN IF closes = {} THEN 0 ELSE SetMin(closes)

\* re.sub(pattern, '', content): the matches are taken from left to right, each
\* search starting where the match before ended.
RECURSIVE sub_script(_)
sub_script(text) ==
  LET starts == {i \in DOMAIN text : script_end(text, i) # 0} IN
  IF starts = {} THEN text
  ELSE SubSeq(text, 1, SetMin(starts) - 1)
         \o sub_script(SubSeq(text, script_end(text, SetMin(starts)) + 1, Len(text)))

RECURSIVE sub_handler(_)
sub_handler(text) ==
  LET starts == {i \in DOMAIN text : handler_end(text, i) # 0} IN
  IF starts = {} THEN text
  ELSE SubSeq(text, 1, SetMin(starts) - 1)
         \o sub_handler(SubSeq(text, handler_end(text, SetMin(starts)) + 1, Len(text)))

\* content.replace(old, new) for a one-character old
RECURSIVE replace(_, _, _)
replace(text, old, new) ==
  IF Len(text) = 0 THEN text
  ELSE IF Len(text) = 1 THEN (IF text[1] = old THEN new ELSE text)
  ELSE LET h == Len(text) \div 2 IN
       replace(SubSeq(text, 1, h), old, new)
         \o replace(SubSeq(text, h + 1, Len(text)), old, new)

\* sanitize_content, lines 162-176
sanitize_content(content) ==
  IF content = <<>> THEN content
  ELSE
    LET no_script == sub_script(content)
        no_handler == sub_handler(no_script)
        amp == replace(no_handler, "&", <<"&", "a", "m", "p", ";">>)
        lt == replace(amp, "<", <<"&", "l", "t", ";">>)
        gt == replace(lt, ">", <<"&", "g", "t", ";">>)
        quot == replace(gt, "\"", <<"&", "q", "u", "o", "t", ";">>)
    IN replace(quot, "'", <<"&", "#", "x", "2", "7", ";">>)

\* The client sends a frame of type message, lines 333-356 and 374.  A
\* content of more than 1000 characters is answered with an error.
\* Otherwise the content is sanitized and check_rate_limit called: it reads
\* the clock and awaits GET, or with the backplane down returns True at once
\* and add_to_history is called.
ws_receive_message(s, frame) ==
  LET e == error_message(sess[s].room, "message_too_long", 0)
      m == [frame EXCEPT !.content = sanitize_content(@)]
  IN
  /\ sess[s].pc = "receive"
  /\ sess' =
       IF Len(frame.content) > MaxContent
         THEN send_personal_message(
                [sess EXCEPT ![s].msg = e, ![s].fn = "error", ![s].nframes = @ + 1],
                s, e, FALSE, "send", "receive")
         ELSE [sess EXCEPT ![s].pc = IF connected THEN "rl_get" ELSE "lpush",
                           ![s].fn = "message", ![s].msg = m,
                           ![s].t0 = ticks, ![s].nframes = @ + 1]
  /\ UNCHANGED <<redisvars, orchvars, active_connections, online, ratevars>>
  /\ UNCHANGED typing

\* check_rate_limit returns True from its except clause (lines 218-220):
\* the request of connection s is allowed and add_to_history awaits lpush.
rl_passes(s, k) ==
  /\ allowed' = [allowed EXCEPT ![k] = Append(@, sess[s].t0)]
  /\ sess' = [sess EXCEPT ![s].pc = "lpush"]

\* check_rate_limit, lines 198-208, with the answer a to GET
rl_get_answered(s, k, a) ==
  IF a = "error" THEN rl_passes(s, k)
  ELSE LET late == sess[s].late \/ ticks - sess[s].t0 > RedisTimeout * TicksPerSecond IN
       /\ sess' = [sess EXCEPT ![s] =
            IF rate_allowed(k, ticks, sess[s].t0)
              THEN [@ EXCEPT !.pc = "rl_setex", !.late = late,
                             !.rl = bucket_written(current_tokens(k, ticks, sess[s].t0),
                                                   sess[s].t0)]
              ELSE [@ EXCEPT !.pc = "rl_info", !.t0 = ticks, !.late = late]]
       /\ UNCHANGED allowed

\* check_rate_limit: GET returns or raises.  Allowed: SETEX is awaited.
\* Denied: get_rate_limit_info reads the clock and awaits GET.
ws_rl_get(s) ==
  LET k == <<sess[s].room, sess[s].user>> IN
  /\ sess[s].pc = "rl_get"
  /\ \E a \in {"ok", "error"} :
       /\ answered(connected, a)
       /\ rl_get_answered(s, k, a)
  /\ UNCHANGED <<orchvars, active_connections, online, bucket, ticks, ttl>>
  /\ UNCHANGED typing

\* As ws_rl_setex, but the bucket is decremented where it stands.
ws_rl_setex_decrements(s) ==
  LET k == <<sess[s].room, sess[s].user>> IN
  /\ sess[s].pc = "rl_setex"
  /\ \E a \in {"ok", "error"} :
       /\ answered(connected, a)
       /\ bucket' = IF a = "ok"
                      THEN [bucket EXCEPT ![k] =
                              setex(bucket_written(current_tokens(k, ticks, sess[s].t0),
                                                   sess[s].t0), ticks)]
                      ELSE bucket
  /\ rl_passes(s, k)
  /\ UNCHANGED <<orchvars, active_connections, online, ticks, ttl>>
  /\ UNCHANGED typing

\* check_rate_limit: SETEX returns, or raises and nothing is written; the
\* message is allowed either way and add_to_history awaits lpush
ws_rl_setex(s) ==
  LET k == <<sess[s].room, sess[s].user>> IN
  /\ sess[s].pc = "rl_setex"
  /\ \E a \in {"ok", "error"} :
       /\ answered(connected, a)
       /\ bucket' = IF a = "ok" THEN [bucket EXCEPT ![k] = setex(sess[s].rl, ticks)]
                                 ELSE bucket
  /\ rl_passes(s, k)
  /\ UNCHANGED <<orchvars, active_connections, online, ticks, ttl>>
  /\ UNCHANGED typing

\* get_rate_limit_info: GET returns, or raises and reset_in is 0 (lines
\* 252-254); the rate_limited error is sent
ws_rl_info(s) ==
  LET k == <<sess[s].room, sess[s].user>> IN
  /\ sess[s].pc = "rl_info"
  /\ \E a \in {"ok", "error"} :
       LET e == error_message(sess[s].room, "rate_limited",
                              IF a = "ok" THEN reset_in(k, ticks, sess[s].t0) ELSE 0)
       IN /\ answered(connected, a)
          /\ sess' = send_personal_message([sess EXCEPT ![s].msg = e], s, e, FALSE,
                                           "send", "receive")
  /\ UNCHANGED <<orchvars, active_connections, online, ratevars, ttl>>
  /\ UNCHANGED typing

\* send_text of an error or confirmation frame returns; back to the loop
ws_send_return(s) ==
  /\ sess[s].pc = "send"
  /\ sess' = [sess EXCEPT ![s].pc = "receive"]
  /\ UNCHANGED <<redisvars, orchvars, active_connections, online, ratevars>>
  /\ UNCHANGED typing

\* The typing key of user u in room r exists at instant t.
typing_present(k, t) == t < typing[k].expires

\* GET of the typing key at instant t: the user_name it stores, or nothing
\* (None, here "") when the key does not exist
typing_get(k, t) == IF typing_present(k, t) THEN typing[k].name ELSE ""

typing_message(room, u, users) ==
  [NoMsg EXCEPT !.type = "typing", !.room = room, !.user = u, !.users = users,
                !.action = IF users # {} THEN "started" ELSE "stopped"]

\* broadcast_typing, lines 149-160, once get_typing_users has its list: the
\* typing frame is built and its publication awaited.
typing_found(rec, users) ==
  [rec EXCEPT !.pc = "publish", !.fn = "typing", !.keys = {}, !.found = {},
              !.msg = typing_message(rec.room, rec.user, users)]

\* The client sends a typing frame, lines 381-384 and 149: "started" awaits
\* SETEX of the typing key, anything else goes to get_typing_users, which
\* awaits KEYS (and reads nothing when the backplane is down)
ws_receive_typing(s, content) ==
  /\ sess[s].pc = "receive"
  /\ sess' = [sess EXCEPT ![s] =
       IF ~connected
         THEN typing_found([@ EXCEPT !.nframes = @ + 1], {})
         ELSE [@ EXCEPT !.pc = IF content = "started" THEN "typing_setex" ELSE "typing_keys",
                        !.fn = "typing", !.nframes = @ + 1]]
  /\ UNCHANGED <<redisvars, orchvars, active_connections, online, typing, ratevars>>

\* set_typing_indicator: SETEX returns, or raises and sets nothing;
\* get_typing_users awaits KEYS
ws_typing_setex(s) ==
  /\ sess[s].pc = "typing_setex"
  /\ \E a \in {"ok", "error"} :
       /\ answered(connected, a)
       /\ typing' = IF a = "ok"
                      THEN [typing EXCEPT ![<<sess[s].room, sess[s].user>>] =
                              [name |-> sess[s].name,
                               expires |-> ticks + TypingTTL * TicksPerSecond]]
                      ELSE typing
  /\ sess' = [sess EXCEPT ![s].pc = "typing_keys"]
  /\ UNCHANGED <<orchvars, active_connections, online, ratevars, ttl>>

\* get_typing_users, lines 159-163: KEYS returns the typing keys of the room
\* that exist; the first is read with GET, or the list is empty.  When KEYS
\* raises the function returns no user (lines 173-175).
ws_typing_keys(s) ==
  LET keys == {u \in Users : typing_present(<<sess[s].room, u>>, ticks)} IN
  /\ sess[s].pc = "typing_keys"
  /\ \E a \in {"ok", "error"} :
       /\ answered(connected, a)
       /\ sess' = [sess EXCEPT ![s] =
            IF keys = {} \/ a = "error" THEN typing_found(@, {})
            ELSE [@ EXCEPT !.pc = "typing_get", !.keys = keys, !.found = {}]]
  /\ UNCHANGED <<orchvars, active_connections, online, typing, ratevars, ttl>>

\* get_typing_users, lines 164-170: GET of the key of user u returns; the
\* user is listed `if user_name:`, so a key that has expired since KEYS and a
\* key that stores the empty name are left out.  When GET raises the function
\* returns no user, whatever it has found.
ws_typing_get(s, u) ==
  LET found == sess[s].found \cup
                 (IF typing_get(<<sess[s].room, u>>, ticks) # "" THEN {u} ELSE {})
      keys == sess[s].keys \ {u} IN
  /\ sess[s].pc = "typing_get"
  /\ u \in sess[s].keys
  /\ \E a \in {"ok", "error"} :
       /\ answered(connected, a)
       /\ sess' = [sess EXCEPT ![s] =
            IF a = "error" THEN typing_found(@, {})
            ELSE IF keys = {} THEN typing_found(@, found)
            ELSE [@ EXCEPT !.keys = keys, !.found = found]]
  /\ UNCHANGED <<orchvars, active_connections, online, typing, ratevars, ttl>>

\* The client sends text that is not JSON, a JSON object that is not a
\* WebSocketMessage, or content longer than 1000 characters: lines 339-350
\* and 427-449
ws_receive_invalid(s, code) ==
  LET e == error_message(sess[s].room, code, 0) IN
  /\ sess[s].pc = "receive"
  /\ sess' = send_personal_message(
               [sess EXCEPT ![s].msg = e, ![s].fn = "error", ![s].nframes = @ + 1],
               s, e, FALSE, "send", "receive")
  /\ UNCHANGED <<redisvars, orchvars, active_connections, online, ratevars>>
  /\ UNCHANGED typing

\* The client sends text that is JSON but not an object (a list, a number):
\* json.loads returns it and WebSocketMessage(**message_data), line 337,
\* raises TypeError, which is neither ValidationError nor JSONDecodeError.  It
\* reaches `except Exception` at line 453: no error frame is sent, the loop
\* is left and the finally block runs: disconnect deletes the registry
\* entry and awaits srem.
ws_receive_not_object(s) ==
  /\ sess[s].pc = "receive"
  /\ active_connections' = [active_connections EXCEPT ![sess[s].user] = 0]
  /\ sess' = [sess EXCEPT ![s].pc = "srem", ![s].fn = "disconnect", ![s].nframes = @ + 1]
  /\ UNCHANGED <<redisvars, orchvars, online, ratevars>>
  /\ UNCHANGED typing

\* clear_typing_indicator(room_id, user_id), redis_client.py 177-185: DEL of
\* the typing key is answered and the key is gone, or raises and the key
\* stays; nothing is sent when connected is false.  No handler of main.py
\* calls it (its only caller is websocket.py, which main.py does not import),
\* so it is a step of no specification below.
clear_typing_indicator(room, u) ==
  /\ \E a \in {"ok", "error"} :
       /\ answered(connected, a)
       /\ typing' = IF connected /\ a = "ok"
                      THEN [typing EXCEPT ![<<room, u>>] = NoTyping]
                      ELSE typing
  /\ UNCHANGED <<orchvars, active_connections, sess, online, ratevars, ttl>>

\* The client sends llm_debate_start, lines 389-398: start_debate is called
\* for the connection's room and awaited
ws_debate_start(s, i, cfg) ==
  /\ sess[s].pc = "receive"
  /\ cfg.room = sess[s].room
  /\ start_debate(i, cfg)
  /\ sess' = [sess EXCEPT ![s].pc = "start", ![s].fn = "debate", ![s].call = i,
                          ![s].nframes = @ + 1]
  /\ UNCHANGED <<active_connections, online, ratevars>>
  /\ UNCHANGED typing

\* ... and start_debate raises at once: lines 410-420
ws_debate_start_failed(s, i, cfg) ==
  LET e == error_message(sess[s].room, "debate_start_failed", 0) IN
  /\ sess[s].pc = "receive"
  /\ cfg.room = sess[s].room
  /\ start_debate_missing_agent(i, cfg)
  /\ sess' = send_personal_message(
               [sess EXCEPT ![s].msg = e, ![s].fn = "debate", ![s].call = i,
                            ![s].nframes = @ + 1],
               s, e, FALSE, "send", "receive")
  /\ UNCHANGED <<active_connections, online, ratevars>>
  /\ UNCHANGED typing

\* start_debate returns the id, lines 398-408: the confirmation is sent
ws_debate_started(s) ==
  LET e == confirmed_message(sess[s].room, th[StartT(sess[s].call)].d) IN
  /\ sess[s].pc = "start"
  /\ start_debate_return(sess[s].call)
  /\ sess' = send_personal_message([sess EXCEPT ![s].msg = e], s, e, FALSE,
                                   "send", "receive")
  /\ UNCHANGED <<active_connections, online, ratevars>>
  /\ UNCHANGED typing

\* The client sends llm_debate_stop with meta.debate_id = id, lines 422-425:
\* stop_debate is called and awaited with no try around it.  For an id that is
\* not registered it returns at once and the loop awaits the next frame.
ws_debate_stop(s, j, id) ==
  /\ sess[s].pc = "receive"
  /\ stop_debate(j, id)
  /\ sess' = [sess EXCEPT ![s] =
       IF stop_debate_present(id)
         THEN [@ EXCEPT !.pc = "stop", !.fn = "debate", !.call = j, !.nframes = @ + 1]
         ELSE [@ EXCEPT !.fn = "debate", !.call = j, !.nframes = @ + 1]]
  /\ UNCHANGED <<active_connections, online, typing, ratevars>>

ws_debate_stop_return_unwinds(s) ==
  LET t == StopT(sess[s].call) IN
  /\ sess[s].pc = "stop"
  /\ stop_debate_finish(t)
  /\ IF th[t].d \in active_debates
       THEN /\ sess' = [sess EXCEPT ![s].pc = "receive"]
            /\ UNCHANGED active_connections
       ELSE /\ sess' = [sess EXCEPT ![s].pc = "closed", ![s].fn = "leave"]
            /\ active_connections' = [active_connections EXCEPT ![sess[s].user] = 0]
  /\ UNCHANGED <<online, typing, ratevars>>

\* stop_debate comes to its end in the handler of connection s.  When it
\* returns the loop awaits the next frame; when its `del` raises KeyError the
\* exception reaches `except Exception` at line 453 and the finally block
\* runs: disconnect deletes the registry entry and awaits srem.
ws_debate_stop_return(s) ==
  LET t == StopT(sess[s].call) IN
  /\ sess[s].pc = "stop"
  /\ stop_debate_finish(t)
  /\ IF th[t].d \in active_debates
       THEN /\ sess' = [sess EXCEPT ![s].pc = "receive"]
            /\ UNCHANGED active_connections
       ELSE /\ sess' = [sess EXCEPT ![s].pc = "srem", ![s].fn = "disconnect"]
            /\ active_connections' = [active_connections EXCEPT ![sess[s].user] = 0]
  /\ UNCHANGED <<online, typing, ratevars>>

ws_disconnect_cancels(s) ==
  /\ sess[s].pc = "receive"
  /\ active_connections' = [active_connections EXCEPT ![sess[s].user] = 0]
  /\ sess' = [sess EXCEPT ![s].pc = "srem", ![s].fn = "disconnect"]
  /\ active_debates' = {d \in active_debates : debate[d].room_id # sess[s].room}
  /\ UNCHANGED <<redisvars, connected, stream, history, debate, stats, next_id, now, th,
                 online, ratevars>>
  /\ UNCHANGED typing

\* receive_text raises WebSocketDisconnect, lines 451-455; disconnect, lines
\* 113-116: the user's registry entry is deleted and srem awaited
ws_disconnect(s) ==
  /\ sess[s].pc = "receive"
  /\ active_connections' = [active_connections EXCEPT ![sess[s].user] = 0]
  /\ sess' = [sess EXCEPT ![s].pc = "srem", ![s].fn = "disconnect"]
  /\ UNCHANGED <<redisvars, orchvars, online, ratevars>>
  /\ UNCHANGED typing

\* remove_user_from_room(room_id, user_id): srem of json.dumps(user_id)
\* returns or raises; a set that srem leaves empty is no key any more
ws_srem(s) ==
  /\ sess[s].pc = "srem"
  /\ \E a \in {"ok", "error"} :
       /\ answered(connected, a)
       /\ online' = IF connected /\ a = "ok"
                      THEN [online EXCEPT ![sess[s].room] = @ \ {json_dumps_id(sess[s].user)}]
                      ELSE online
  /\ ttl' = IF online'[sess[s].room] = {}
              THEN [ttl EXCEPT ![<<"online", sess[s].room>>] = NoTTL]
              ELSE ttl
  /\ sess' = [sess EXCEPT ![s].pc = "smembers"]
  /\ UNCHANGED <<orchvars, active_connections, ratevars>>
  /\ UNCHANGED typing

\* --------------------------------------------- one client, one bucket
\* One user connects to a room and sends chat messages one after the other
\* while time passes.  Between the frame's arrival and the handler's next
\* wait for a frame the clock is read only by check_rate_limit and
\* get_rate_limit_info, so time is let pass where they wait and where the
\* handler waits for a frame (IdleSpec below).
RateRoom == "r2"
RateUser == "u1"
RateWaits == {"receive", "rl_get", "rl_setex", "rl_info"}

\* The time the client gives one command, in seconds (redis_client.py
\* 27-29): an attempt connects within socket_connect_timeout and is answered
\* within socket_timeout, both REDIS_TIMEOUT, and an attempt that timed out is
\* made once more.
CommandTimeout == RedisAttempts * 2 * RedisTimeout

\* GET is answered, or raises, within CommandTimeout of the instant t0 read
\* before it, and the SETEX that follows within CommandTimeout of that.
rl_deadline(s) ==
  CASE sess[s].pc = "rl_setex" -> sess[s].t0 + 2 * CommandTimeout * TicksPerSecond
    [] sess[s].pc \in {"rl_get", "rl_info"} -> sess[s].t0 + CommandTimeout * TicksPerSecond
    [] OTHER -> MaxIdleSeconds * TicksPerSecond

IdleStep == IdleStepSeconds * TicksPerSecond

\* The instants at which the clock is read in IdleSpec: the start, one second
\* later (one token refilled), and every IdleStepSeconds from the start to
\* MaxIdleSeconds, past the TTL of the bucket's key and the time of a command.
IdleInstants ==
  {0, TicksPerSecond} \cup {i * IdleStep : i \in 0..(MaxIdleSeconds \div IdleStepSeconds)}

LaterInstants == {t \in IdleInstants : t > ticks}

SecondsPass ==
  /\ sess[1].pc \in RateWaits
  /\ LaterInstants # {}
  /\ SetMin(LaterInstants) <= rl_deadline(1)
  /\ ticks' = SetMin(LaterInstants)
  /\ UNCHANGED <<orchvars, hubvars, bucket, allowed, redisvars>>

IdleNext ==
  \/ ws_connect(1, RateUser, RateRoom)
  \/ Calm(ws_sadd(1))
  \/ Calm(ws_expire_online(1))
  \/ Calm(ws_smembers(1))
  \/ Calm(ws_publish(1))
  \/ Calm(ws_lrange(1))
  \/ ws_lpush(1)
  \/ ws_ltrim(1)
  \/ Calm(ws_expire(1))
  \/ /\ sess[1].nframes < MaxRateRequests
     /\ ws_receive_message(1, client_message(1, sess[1].nframes + 1))
  \/ ws_rl_get(1)
  \/ ws_rl_setex(1)
  \/ ws_rl_info(1)
  \/ ws_send_return(1)
  \/ SecondsPass

IdleSpec == Init /\ [][IdleNext]_vars

\* ------------------------------------------------ one client in a hurry
\* One user connects to a room whose history is nearly full, with a full
\* bucket, and sends chat messages; everything happens within the second
\* that starts at connection.
BurstRoom == "r1"
BurstUser == "u1"

BurstTick ==
  /\ ticks + 1 < TicksPerSecond
  /\ ticks' = ticks + 1
  /\ UNCHANGED <<orchvars, hubvars, bucket, allowed, redisvars>>

BurstNext ==
  \/ ws_connect(1, BurstUser, BurstRoom)
  \/ ws_sadd(1)
  \/ ws_expire_online(1)
  \/ ws_smembers(1)
  \/ ws_publish(1)
  \/ ws_lrange(1)
  \/ ws_replay(1)
  \/ ws_lpush(1)
  \/ ws_ltrim(1)
  \/ ws_expire(1)
  \/ sess[1].nframes < BurstFrames /\ ws_receive_message(1, client_message(1, sess[1].nframes + 1))
  \/ ws_rl_get(1)
  \/ ws_rl_setex(1)
  \/ ws_rl_info(1)
  \/ ws_send_return(1)
  \/ BurstTick

BurstSpec == Init /\ [][BurstNext]_vars

\* ------------------------------------------------- clients of one room
\* Websocket connections to one room, by the same or by different users; a
\* client connects when the connections opened before it have joined.  Each
\* client sends up to HubFrames frames and may close its connection whenever
\* the server awaits its next frame.
HubRoom == "r2"

\* A start request that names no configured agent.
NoAgentsConfig ==
  [room |-> HubRoom, agent_a_id |-> "ghost", agent_b_id |-> "ghost",
   max_rounds |-> 1, max_duration |-> DefaultDuration, topic |-> "text"]

HubNext ==
  \/ \E s \in Sessions, u \in Users :
       /\ s = 1 => u = "u1"
       /\ \A k \in 1..(s - 1) :
            sess[k].pc = "receive" \/ sess[k].fn \notin {"", "connect", "join"}
       /\ ws_connect(s, u, HubRoom)
  \/ \E s \in Sessions : ws_sadd(s)
  \/ \E s \in Sessions : ws_expire_online(s)
  \/ \E s \in Sessions : ws_smembers(s)
  \/ \E s \in Sessions : ws_publish(s)
  \/ \E s \in Sessions : ws_lrange(s)
  \/ \E s \in Sessions : ws_replay(s)
  \/ \E s \in Sessions : ws_lpush(s)
  \/ \E s \in Sessions : ws_ltrim(s)
  \/ \E s \in Sessions : ws_expire(s)
  \/ \E s \in Sessions :
       sess[s].nframes < HubFrames /\ ws_receive_message(s, client_message(s, sess[s].nframes + 1))
  \/ \E s \in Sessions : ws_rl_get(s)
  \/ \E s \in Sessions : ws_rl_setex(s)
  \/ \E s \in Sessions : ws_send_return(s)
  \/ \E s \in Sessions, code \in ErrorCodes :
       sess[s].nframes < HubFrames /\ ws_receive_invalid(s, code)
  \/ \E s \in Sessions : sess[s].nframes < HubFrames /\ ws_receive_not_object(s)
  \/ \E s \in Sessions :
       sess[s].nframes < HubFrames /\ ws_debate_start_failed(s, 1, NoAgentsConfig)
  \/ \E s \in Sessions : ws_disconnect(s)
  \/ \E s \in Sessions : ws_srem(s)

HubSpec == CalmInit /\ [][HubNext]_vars

\* -------------------------------------------- a debate started by a client
\* A client connects to a room, asks for a debate with llm_debate_start and
\* may close its connection at any time after; no stop request is made and
\* Redis answers every command.
ClientRoom == "r1"
ClientUser == "u1"

ClientNext ==
  \/ ws_connect(1, ClientUser, ClientRoom)
  \/ ws_sadd(1)
  \/ ws_expire_online(1)
  \/ ws_smembers(1)
  \/ ws_publish(1)
  \/ ws_lrange(1)
  \/ ws_replay(1)
  \/ ws_lpush(1)
  \/ ws_ltrim(1)
  \/ ws_expire(1)
  \/ \E cfg \in StartConfigs : sess[1].nframes < HubFrames /\ ws_debate_start(1, 1, cfg)
  \/ \E cfg \in StartConfigs : sess[1].nframes < HubFrames /\ ws_debate_start_failed(1, 1, cfg)
  \/ ws_debate_started(1)
  \/ ws_send_return(1)
  \/ ws_disconnect(1)
  \/ ws_srem(1)
  \/ /\ \E t \in Threads : publish_message(t)
     /\ UNCHANGED <<hubvars, ratevars>>
  \/ /\ \E t \in Threads : add_to_history_lpush(t)
     /\ UNCHANGED <<hubvars, ratevars>>
  \/ /\ \E t \in Threads : add_to_history_ltrim(t)
     /\ UNCHANGED <<hubvars, ratevars>>
  \/ /\ \E t \in Threads : stop_debate_finish(t)
     /\ UNCHANGED <<hubvars, ratevars>>
  \/ /\ \E id \in Ids : run_debate_begin(id)
     /\ UNCHANGED <<hubvars, ratevars>>
  \/ /\ \E id \in Ids : run_debate_next(id)
     /\ UNCHANGED <<hubvars, ratevars>>
  \/ /\ \E id \in Ids, res \in {"success", "timeout", "error"} : call_llm_return(id, res)
     /\ UNCHANGED <<hubvars, ratevars>>
  \/ /\ \E id \in Ids : run_debate_turn_done(id)
     /\ UNCHANGED <<hubvars, ratevars>>
  \/ Tick

ClientSpec == CalmInit /\ [][ClientNext]_vars

\* ------------------------------------------ two connections of one user
\* The same user has two connections to one room and sends chat messages on
\* both; the clock stands still, so the bucket is not refilled.
RaceUser == "u1"

RaceNext ==
  \/ \E s \in Sessions :
       /\ \A k \in 1..(s - 1) : sess[k].pc = "receive" \/ sess[k].fn = "message"
       /\ ws_connect(s, RaceUser, HubRoom)
  \/ \E s \in Sessions : Calm(ws_sadd(s))
  \/ \E s \in Sessions : Calm(ws_expire_online(s))
  \/ \E s \in Sessions : Calm(ws_smembers(s))
  \/ \E s \in Sessions : Calm(ws_publish(s))
  \/ \E s \in Sessions : Calm(ws_lrange(s))
  \/ \E s \in Sessions : ws_replay(s)
  \/ \E s \in Sessions : ws_lpush(s)
  \/ \E s \in Sessions : ws_ltrim(s)
  \/ \E s \in Sessions : Calm(ws_expire(s))
  \/ \E s \in Sessions :
       sess[s].nframes < RaceFrames /\ ws_receive_message(s, client_message(s, sess[s].nframes + 1))
  \/ \E s \in Sessions : ws_rl_get(s)
  \/ \E s \in Sessions : ws_rl_setex(s)
  \/ \E s \in Sessions : ws_rl_info(s)
  \/ \E s \in Sessions : ws_send_return(s)

RaceSpec == Init /\ [][RaceNext]_vars

\* ----------------------------------------------- join, leave and rejoin
\* Users join one room, leave it and join again: a client connects when
\* every connection opened before it has been closed and its handler has
\* ended.  The user_name is what the client says it is, stripped of the
\* white space around it (line 293): any text, also the empty one.
Names == {"Guest", "Ana", ""}

RejoinNext ==
  \/ \E s \in Sessions, u \in Users, name \in Names :
       /\ \A k \in 1..(s - 1) : sess[k].pc = "closed"
       /\ ws_connect_as(s, u, name, HubRoom)
  \/ \E s \in Sessions : ws_sadd(s)
  \/ \E s \in Sessions : ws_expire_online(s)
  \/ \E s \in Sessions : ws_smembers(s)
  \/ \E s \in Sessions : ws_publish(s)
  \/ \E s \in Sessions : ws_lrange(s)
  \/ \E s \in Sessions : ws_replay(s)
  \/ \E s \in Sessions : ws_lpush(s)
  \/ \E s \in Sessions : ws_ltrim(s)
  \/ \E s \in Sessions : ws_expire(s)
  \/ \E s \in Sessions : ws_disconnect(s)
  \/ \E s \in Sessions : ws_srem(s)

RejoinSpec == CalmInit /\ [][RejoinNext]_vars

\* ------------------------------------------------- what a message says
\* One user connects and sends chat messages with contents of several kinds:
\* none, plain, at the length limit, over it, markup, script only, a
\* handler attribute with a vertical tab after its equals sign.
ContentRoom == "r1"
ContentUser == "u1"

Repeat(c, n) == [i \in 1..n |-> c]

Contents ==
  { <<>>,
    <<"h", "i">>,
    <<"a", "&", "b">>,
    Repeat("&", MaxContent),
    Repeat("a", MaxContent + 1),
    <<"<", "s", "c", "r", "i", "p", "t", ">", "x", "<", "/", "s", "c", "r", "i", "p", "t", ">">>,
    <<"<", "b", " ", "o", "n", "c", "l", "i", "c", "k", "=", "'", "x", "'", ">">>,
    <<"o", "n", "x", "=", VerticalTab, "'", "a", "'">> }

ContentNext ==
  \/ ws_connect(1, ContentUser, ContentRoom)
  \/ ws_sadd(1)
  \/ ws_expire_online(1)
  \/ ws_smembers(1)
  \/ ws_publish(1)
  \/ ws_lrange(1)
  \/ ws_replay(1)
  \/ ws_lpush(1)
  \/ ws_ltrim(1)
  \/ ws_expire(1)
  \/ \E c \in Contents :
       /\ sess[1].nframes < ContentFrames
       /\ ws_receive_message(1, [client_message(1, sess[1].nframes + 1) EXCEPT !.content = c])
  \/ ws_rl_get(1)
  \/ ws_rl_setex(1)
  \/ ws_send_return(1)
  \/ ws_disconnect(1)
  \/ ws_srem(1)

ContentSpec == CalmInit /\ [][ContentNext]_vars

\* ------------------------------------------------- the backplane is down
\* RedisClient.connect failed at startup.  Two users connect to a room whose
\* history in Redis is nearly full, send chat messages and typing frames, and
\* close their connections.
DownRoom == "r1"

DownNext ==
  \/ \E s \in Sessions :
       /\ \A k \in 1..(s - 1) : sess[k].pc = "receive" \/ sess[k].nframes > 0
       /\ ws_connect(s, IF s = 1 THEN "u1" ELSE "u2", DownRoom)
  \/ \E s \in Sessions : ws_sadd(s)
  \/ \E s \in Sessions : ws_expire_online(s)
  \/ \E s \in Sessions : ws_smembers(s)
  \/ \E s \in Sessions : ws_publish(s)
  \/ \E s \in Sessions : ws_lrange(s)
  \/ \E s \in Sessions : ws_lpush(s)
  \/ \E s \in Sessions : ws_ltrim(s)
  \/ \E s \in Sessions : ws_expire(s)
  \/ \E s \in Sessions :
       /\ sess[s].nframes < DownFrames
       /\ ws_receive_message(s, client_message(s, sess[s].nframes + 1))
  \/ \E s \in Sessions, content \in {"started", "stopped"} :
       sess[s].nframes < DownFrames /\ ws_receive_typing(s, content)
  \/ \E s \in Sessions : ws_disconnect(s)
  \/ \E s \in Sessions : ws_srem(s)

DownSpec == DownInit /\ [][DownNext]_vars

\* ------------------------------------------------- reading the history
\* One user joins a room whose history is one short of the cap and sends chat
\* messages; a second user connects at any moment and is replayed the history.
HistoryRoom == "r1"
Writer == 1
Reader == 2

HistoryNext ==
  \/ ws_connect(Writer, "u1", HistoryRoom)
  \/ ws_connect(Reader, "u2", HistoryRoom)
  \/ \E s \in Sessions : Calm(ws_sadd(s))
  \/ \E s \in Sessions : Calm(ws_expire_online(s))
  \/ \E s \in Sessions : Calm(ws_smembers(s))
  \/ \E s \in Sessions : Calm(ws_publish(s))
  \/ \E s \in Sessions : ws_lrange(s)
  \/ \E s \in Sessions : ws_replay(s)
  \/ \E s \in Sessions : ws_lpush(s)
  \/ \E s \in Sessions : ws_ltrim(s)
  \/ \E s \in Sessions : ws_expire(s)
  \/ /\ sess[Writer].nframes < HistoryFrames
     /\ ws_receive_message(Writer, client_message(Writer, sess[Writer].nframes + 1))
  \/ Calm(ws_rl_get(Writer))
  \/ Calm(ws_rl_setex(Writer))

HistorySpec == Init /\ [][HistoryNext]_vars

\* ------------------------------------------- what a frame says of itself
\* One user connects to a room and sends chat messages whose room and user
\* fields name any room and any user.
ForgeRoom == "r1"
ForgeUser == "u1"

ForgeNext ==
  \/ ws_connect(1, ForgeUser, ForgeRoom)
  \/ ws_sadd(1)
  \/ ws_expire_online(1)
  \/ ws_smembers(1)
  \/ ws_publish(1)
  \/ ws_lrange(1)
  \/ ws_replay(1)
  \/ ws_lpush(1)
  \/ ws_ltrim(1)
  \/ ws_expire(1)
  \/ \E r \in Rooms, u \in Users :
       /\ sess[1].nframes < ForgeFrames
       /\ ws_receive_message(1, [client_message(1, sess[1].nframes + 1) EXCEPT
                                   !.room = r, !.user = u])
  \/ ws_rl_get(1)
  \/ ws_rl_setex(1)
  \/ ws_disconnect(1)
  \/ ws_srem(1)

ForgeSpec == CalmInit /\ [][ForgeNext]_vars

\* ------------------------------------------------ how a connection ends
\* One user connects, starts a debate in the room, asks for its stop while the
\* debate runs to its own end (its rounds done or a provider failing, within
\* one second), and closes the connection or loses it to the exception of the
\* stop.
LeaveRoom == "r1"
LeaveUser == "u1"

\* The steps the handler of connection s takes by itself, once the awaited
\* call has returned.
LeaveHandler(s) ==
  \/ ws_sadd(s)
  \/ ws_expire_online(s)
  \/ ws_smembers(s)
  \/ ws_publish(s)
  \/ ws_lrange(s)
  \/ ws_replay(s)
  \/ ws_lpush(s)
  \/ ws_ltrim(s)
  \/ ws_expire(s)
  \/ ws_debate_started(s)
  \/ ws_send_return(s)
  \/ ws_debate_stop_return(s)
  \/ ws_srem(s)

LeaveDebate ==
  \/ \E t \in Threads : publish_message(t)
  \/ \E t \in Threads : add_to_history_lpush(t)
  \/ \E t \in Threads : add_to_history_ltrim(t)
  \/ \E id \in Ids : stop_debate_finish(RunT(id))
  \/ \E id \in Ids : run_debate_begin(id)
  \/ \E id \in Ids : run_debate_next(id)
  \/ \E id \in Ids, res \in {"success", "error"} : call_llm_return(id, res)
  \/ \E id \in Ids : run_debate_turn_done(id)

LeaveNext ==
  \/ ws_connect(1, LeaveUser, LeaveRoom)
  \/ \E cfg \in StartConfigs : sess[1].nframes < LeaveFrames /\ ws_debate_start(1, 1, cfg)
  \/ \E id \in Ids : sess[1].nframes < LeaveFrames /\ ws_debate_stop(1, 1, id)
  \/ sess[1].nframes < LeaveFrames /\ ws_receive_not_object(1)
  \/ ws_disconnect(1)
  \/ LeaveHandler(1)
  \/ /\ LeaveDebate
     /\ UNCHANGED <<hubvars, ratevars>>

\* While the server serves asyncio runs every coroutine that is ready, and
\* the backplane answers every command and the providers every call; the
\* client is free to stay.
LeaveSpec ==
  /\ CalmInit
  /\ [][LeaveNext]_vars
  /\ WF_vars(LoopRuns /\ LeaveHandler(1))
  /\ WF_vars(LoopRuns /\ LeaveDebate /\ UNCHANGED <<hubvars, ratevars>>)

\* ------------------------------------------------ frames of every kind
\* One user connects to a room, sends chat messages, typing frames and
\* malformed frames, and leaves, while a debate that was started over HTTP
\* after the user's last frame runs in the room: presence, join, leave,
\* message, typing, error, start, agent, round and stop frames are all
\* produced.  Redis answers the commands of the connection's handler; those
\* of the debate may raise.
FramesRoom == "r1"
FramesUser == "u1"

\* The debate of FramesSpec: the mock agent against the Anthropic agent.
FramesConfig ==
  [room |-> FramesRoom, agent_a_id |-> "mock-a", agent_b_id |-> "claude",
   max_rounds |-> FramesRounds, max_duration |-> DefaultDuration, topic |-> "text"]

FramesNext ==
  \/ ws_connect(1, FramesUser, FramesRoom)
  \/ Calm(ws_sadd(1))
  \/ Calm(ws_expire_online(1))
  \/ Calm(ws_smembers(1))
  \/ Calm(ws_publish(1))
  \/ Calm(ws_lrange(1))
  \/ ws_replay(1)
  \/ Calm(ws_lpush(1))
  \/ Calm(ws_ltrim(1))
  \/ Calm(ws_expire(1))
  \/ /\ sess[1].nframes < FramesSent
     /\ ws_receive_message(1, client_message(1, sess[1].nframes + 1))
  \/ Calm(ws_rl_get(1))
  \/ Calm(ws_rl_setex(1))
  \/ sess[1].nframes < FramesSent /\ ws_receive_typing(1, "started")
  \/ Calm(ws_typing_setex(1))
  \/ Calm(ws_typing_keys(1))
  \/ \E u \in Users : ws_typing_get(1, u)
  \/ \E code \in ErrorCodes : sess[1].nframes < FramesSent /\ ws_receive_invalid(1, code)
  \/ sess[1].nframes < FramesSent /\ ws_receive_not_object(1)
  \/ ws_send_return(1)
  \/ ws_disconnect(1)
  \/ Calm(ws_srem(1))
  \/ /\ sess[1].pc = "receive" /\ sess[1].nframes = FramesSent
     /\ start_debate(1, FramesConfig)
     /\ UNCHANGED <<hubvars, ratevars>>
  \/ /\ start_debate_return(1)
     /\ UNCHANGED <<hubvars, ratevars>>
  \/ /\ LeaveDebate
     /\ UNCHANGED <<hubvars, ratevars>>

FramesSpec == Init /\ [][FramesNext]_vars

\* ------------------------------------------------------ typing indicators
\* Users connect to one room under a name or under none, send typing frames
\* and close their connections while time passes.
TypingTick ==
  /\ ticks < MaxTypingTicks
  /\ ticks' = ticks + 1
  /\ UNCHANGED <<orchvars, hubvars, bucket, allowed, redisvars>>

TypingUser == "u1"
TypingRoom == "r1"

TypingNext ==
  \/ \E name \in {"Guest", ""} : ws_connect_as(1, TypingUser, name, TypingRoom)
  \/ ws_sadd(1)
  \/ ws_expire_online(1)
  \/ ws_smembers(1)
  \/ ws_publish(1)
  \/ ws_lrange(1)
  \/ ws_replay(1)
  \/ ws_lpush(1)
  \/ ws_ltrim(1)
  \/ ws_expire(1)
  \/ \E content \in {"started", "stopped"} :
       sess[1].nframes < TypingFrames /\ ws_receive_typing(1, content)
  \/ ws_typing_setex(1)
  \/ ws_typing_keys(1)
  \/ \E u \in Users : ws_typing_get(1, u)
  \/ ws_disconnect(1)
  \/ ws_srem(1)
  \/ TypingTick

TypingSpec == CalmInit /\ [][TypingNext]_vars

\* ------------------------------------------------------------ observations
Emitting == {"publish", "lpush", "ltrim", "expire"}

IsStarted(m, d) == m.action = "llm_debate_started" /\ m.debate_id = d
IsStopped(m, d) == m.action = "llm_debate_stopped" /\ m.debate_id = d
IsAgentMessage(m, d) == m.type = "message" /\ m.debate_id = d

\* The debates that start_debate has registered so far.
Started == 1..(next_id - 1)

\* The frames of debate d in a sequence of frames, round messages left out.
DebateFrames(seq, d) ==
  LET Mine(m) == m.debate_id = d /\ m.action # "llm_debate_round" IN SelectSeq(seq, Mine)
AgentFrames(seq, d) ==
  LET Mine(m) == IsAgentMessage(m, d) IN SelectSeq(seq, Mine)
StoppedFrames(seq, d) ==
  LET Mine(m) == IsStopped(m, d) IN SelectSeq(seq, Mine)

\* A stop_debate call for d is between its test of active_debates and its end.
StopInFlight(d) ==
  \E t \in Threads : th[t].fn = "stop_debate" /\ th[t].d = d /\ th[t].pc \in Emitting

\* Debate d is over: its start call has returned, its task has ended, it is
\* out of the active set and no stop_debate call for it is still running.
Terminated(d) ==
  /\ d \in Started
  /\ d \notin active_debates
  /\ th[RunT(d)].pc \in {"done", "raised"}
  /\ ~StopInFlight(d)

\* No Redis command has raised so far.
NoneRaised == faults.raised = 0

\* ... and the server has not closed its Redis client: every frame handed to
\* the room store so far was published and stored.
Answering == connected /\ NoneRaised

\* No key has run out of its time to live: the clock has not reached the day.
WithinDay == now < DaySeconds

\* A stop request for d has arrived.
ManuallyStopped(d) == \E j \in StopReqs : th[StopT(j)].pc # "idle" /\ th[StopT(j)].d = d

\* ------------------------------------------------------------------ claims

\* C1: for every debate that has terminated, whatever the interleaving of
\* stop requests with the turn loop, exactly one llm_debate_stopped frame of
\* that debate is on the room's channel and exactly one is in its history
\* (as long as the history's key has not expired).
C1_ExactlyOneStoppedFrame ==
  \A d \in Ids : Terminated(d) =>
    /\ Len(StoppedFrames(stream[debate[d].room_id], d)) = 1
    /\ WithinDay => Len(StoppedFrames(history[debate[d].room_id], d)) = 1

\* C2: in every reachable state, also between the commands of one append, the
\* stored history of every room holds at most 50 entries.
C2_HistoryAtMostCap == \A r \in Rooms : Len(history[r]) <= HistoryCap

\* C3: current_round starts at 0, never decreases, grows by exactly 1 on a
\* successful turn and not at all on a failed one, and never exceeds
\* max_rounds.
C3_RoundCounter ==
  [][\A d \in Ids :
       LET cr == debate[d].current_round
           crn == debate'[d].current_round IN
       /\ d \in Started' => crn <= debate'[d].max_rounds
       /\ (d \notin Started /\ d \in Started') => crn = 0
       /\ d \in Started =>
            /\ crn >= cr
            /\ crn # cr => /\ crn = cr + 1
                           /\ th[RunT(d)].llm_response = "success"
                           /\ th[RunT(d)].fn = "turn"
            /\ th[RunT(d)].llm_response \in {"error", "timeout"} => crn = cr]_vars

\* C4: the turn taken at current_round = k is agent A's iff k is even;
\* every agent message on the channel has the agent of its round (A for the
\* odd rounds 1, 3, ..., B for the even ones) and the rounds of the messages
\* grow; while every PUBLISH is answered the messages are those of the rounds
\* 1, 2, ... with none missing, so they alternate A, B, A, B from A.
C4_AgentsAlternate ==
  \A d \in Started :
    LET frames == AgentFrames(stream[debate[d].room_id], d)
        t == th[RunT(d)] IN
    /\ \A i \in 1..Len(frames) :
         /\ frames[i].agent = IF frames[i].round % 2 = 1 THEN debate[d].agent_a.id
                                                         ELSE debate[d].agent_b.id
         /\ \A j \in (i + 1)..Len(frames) : frames[i].round < frames[j].round
    /\ Answering => \A i \in 1..Len(frames) : frames[i].round = i
    /\ t.pc = "llm" =>
         t.current_agent = IF debate[d].current_round % 2 = 0 THEN debate[d].agent_a
                                                              ELSE debate[d].agent_b

C4_Witness ==
  \E d \in Started :
    LET frames == AgentFrames(stream[debate[d].room_id], d) IN
    /\ Len(frames) >= 2
    /\ frames[1].agent # frames[2].agent

\* C5: a start whose agent A or agent B is not in the registry fails and
\* changes nothing: no frame, no history entry, no active debate, no count,
\* no task.
InRegistry(cfg) == cfg.agent_a_id \in DOMAIN agents /\ cfg.agent_b_id \in DOMAIN agents

C5_MissingAgentChangesNothing ==
  [][\A i \in StartReqs :
       (/\ th[StartT(i)].pc = "idle"
        /\ th'[StartT(i)].pc # "idle"
        /\ ~InRegistry(th'[StartT(i)].cfg))
       => /\ th'[StartT(i)].pc = "raised"
          /\ th'[StartT(i)].resp = "debate_start_failed"
          /\ UNCHANGED <<stream, history, active_debates, debate, stats, next_id>>
          /\ \A t \in Threads \ {StartT(i)} : th'[t] = th[t]]_vars

C5_Witness ==
  \E i \in StartReqs :
    /\ th[StartT(i)].resp = "debate_start_failed"
    /\ th[StartT(i)].cfg.agent_a_id \in DOMAIN agents
    /\ th[StartT(i)].cfg.agent_b_id \notin DOMAIN agents

\* The run of debate d is over: its turns all succeeded, no request stopped
\* it and it did not run out of time.
UndisturbedRun(d) ==
  /\ Terminated(d)
  /\ ~ManuallyStopped(d)
  /\ th[RunT(d)].llm_response \notin {"error", "timeout"}
  /\ now - debate[d].started_at < debate[d].max_duration

\* C6: a debate with max_rounds = N whose turns all succeed, that no request
\* stops and that does not run out of time puts on the channel, in this order,
\* one llm_debate_started frame, N agent messages (none when N is negative)
\* and one llm_debate_stopped frame with reason max_rounds; the history holds
\* the same frames, newest first.  The channel and the history show what the
\* debate emitted as long as the room store answered every command and the
\* server has not closed its Redis client.
C6_RoundsScenario ==
  \A d \in Ids : (UndisturbedRun(d) /\ Answering) =>
    LET frames == DebateFrames(stream[debate[d].room_id], d)
        N == IF debate[d].max_rounds < 0 THEN 0 ELSE debate[d].max_rounds IN
    /\ Len(frames) = N + 2
    /\ IsStarted(frames[1], d)
    /\ \A i \in 1..N : IsAgentMessage(frames[i + 1], d) /\ frames[i + 1].round = i
    /\ IsStopped(frames[N + 2], d)
    /\ frames[N + 2].reason = "max_rounds"
    /\ Reverse(DebateFrames(history[debate[d].room_id], d)) = frames

C6_Witness ==
  \E d \in Ids : UndisturbedRun(d) /\ Answering /\ debate[d].max_rounds = MaxRounds
                   /\ Len(AgentFrames(stream[debate[d].room_id], d)) >= 2

\* C7: when the provider call of a turn runs into the 15 s timeout, the
\* debate's final frame has reason turn_timeout.
C7_TimeoutReason ==
  \A d \in Ids :
    LET t == th[RunT(d)] IN
    (t.llm_response = "timeout" /\ t.fn = "stop_debate") => t.msg.reason = "turn_timeout"

\* C8: when the provider call of a turn fails with an error, the turn loop
\* stops the debate with reason llm_error_{provider}, the provider being that
\* of the agent whose turn it was (if a stop request has already removed the
\* debate there is nothing left to stop); no agent message is sent for the
\* turn, current_round stays and no further turn is taken.  The stopped frame
\* the loop hands to the room store has that reason, and it is on the channel
\* and in the history whenever the store's commands were answered.  (A
\* shutdown of the server may cancel the task while it hands the frame over.)
TurnAgent(d) ==
  IF debate[d].current_round % 2 = 0 THEN debate[d].agent_a ELSE debate[d].agent_b

FailedTurn(d) == th[RunT(d)].llm_response = "error"

C8_AfterFailure(d) ==
  LET t == th[RunT(d)]
      room == debate[d].room_id
      reason == "llm_error_" \o TurnAgent(d).provider IN
  /\ t.pc \in Emitting \cup {"done", "cancelled"}
  /\ t.current_agent = TurnAgent(d)
  /\ t.pc \in Emitting =>
       /\ t.fn = "stop_debate"
       /\ IsStopped(t.msg, d)
       /\ t.msg.reason = reason
       /\ t.msg.round = debate[d].current_round
  /\ (t.pc = "done" /\ t.fn = "stop_debate") =>
       /\ d \notin active_debates
       /\ IsStopped(t.msg, d)
       /\ t.msg.reason = reason
       /\ Answering =>
            \E i \in DOMAIN stream[room] :
              IsStopped(stream[room][i], d) /\ stream[room][i].reason = reason
       /\ (Answering /\ WithinDay) =>
            \E i \in DOMAIN history[room] :
              IsStopped(history[room][i], d) /\ history[room][i].reason = reason
  /\ Len(AgentFrames(stream[room], d)) <= debate[d].current_round
  /\ Len(AgentFrames(history[room], d)) <= debate[d].current_round
  /\ Answering => Len(AgentFrames(stream[room], d)) = debate[d].current_round

C8_ProviderError ==
  [][\A d \in Ids :
       /\ FailedTurn(d)' => C8_AfterFailure(d)'
       /\ (~FailedTurn(d) /\ FailedTurn(d)' /\ d \in active_debates)
            => th'[RunT(d)].pc = "publish" /\ th'[RunT(d)].fn = "stop_debate"
       /\ FailedTurn(d) => /\ debate'[d].current_round = debate[d].current_round
                           /\ th'[RunT(d)].pc # "llm"]_vars

C8_Witness ==
  \E d \in Ids :
    /\ FailedTurn(d)
    /\ th[RunT(d)].pc = "done"
    /\ th[RunT(d)].fn = "stop_debate"
    /\ th[RunT(d)].msg.reason = "llm_error_anthropic"
    /\ debate[d].current_round = 1

\* C9: the duration limit is tested at each turn boundary: no turn starts
\* once now - started_at >= max_duration, and when the loop of a debate that
\* is still active finds the time used up with rounds left, it stops the
\* debate with reason max_duration (the task is not one that the server's
\* shutdown cancels).
AtTurnBoundary(d) == th[RunT(d)].pc \in {"begin", "sleep"}

C9_DurationLimit ==
  [][\A d \in Ids :
       LET t == th[RunT(d)]
           tn == th'[RunT(d)] IN
       /\ (t.pc # "llm" /\ tn.pc = "llm")
            => now - debate[d].started_at < debate[d].max_duration
       /\ (/\ AtTurnBoundary(d)
           /\ tn # t
           /\ tn.pc # "cancelled"
           /\ d \in active_debates
           /\ debate[d].is_active
           /\ debate[d].current_round < debate[d].max_rounds
           /\ now - debate[d].started_at >= debate[d].max_duration)
          => /\ tn.pc = "publish"
             /\ IsStopped(tn.msg, d)
             /\ tn.msg.reason = "max_duration"]_vars

\* C10: stop is idempotent.  The first stop request for an active debate
\* stops it with reason manual; a stop request for an id that an earlier stop
\* request has named, or that no debate ever had, answers stopped, sends no
\* frame and leaves history, active set and counters as they are.
LaterStop(j, id) ==
  \E k \in 1..(j - 1) : th[StopT(k)].pc # "idle" /\ th[StopT(k)].d = id

C10_StopIdempotent ==
  [][\A j \in StopReqs :
       LET t == th[StopT(j)]
           tn == th'[StopT(j)] IN
       (t.pc = "idle" /\ tn.pc # "idle") =>
         /\ (~LaterStop(j, tn.d) /\ tn.d \in active_debates /\ debate[tn.d].is_active)
              => /\ tn.pc = "publish"
                 /\ IsStopped(tn.msg, tn.d)
                 /\ tn.msg.reason = "manual"
         /\ (LaterStop(j, tn.d) \/ tn.d \notin Started)
              => /\ tn.pc = "done"
                 /\ tn.resp = "stopped"
                 /\ tn.msg = NoMsg
                 /\ UNCHANGED <<stream, history, active_debates, debate, stats>>]_vars

\* C11: a stop request is answered {status: stopped} whatever the id and the
\* state of the debate, also when it overlaps the debate's own termination or
\* another stop request, and no call of stop_debate ever raises.
C11_StopAlwaysAnswers ==
  /\ \A j \in StopReqs :
       th[StopT(j)].pc \in {"done", "raised"} =>
         th[StopT(j)].pc = "done" /\ th[StopT(j)].resp = "stopped"
  /\ \A t \in Threads : ~(th[t].fn = "stop_debate" /\ th[t].pc = "raised")


\* A removed debate never re-enters the active set.
NeverActiveAgain ==
  [][\A d \in Ids :
       (d \in Started /\ d \notin active_debates) => d \notin active_debates']_vars

\* C12 as the claim states it: every started debate eventually terminates,
\* provided every provider call returns or times out: its llm_debate_stopped
\* frame is eventually published, it eventually leaves the active set,
\* whatever the reason, and is never in it again.
C12_EveryDebateTerminates ==
  /\ \A d \in Ids :
       (d \in active_debates) ~>
         (/\ d \in Started
          /\ d \notin active_debates
          /\ Len(StoppedFrames(stream[debate[d].room_id], d)) >= 1)
  /\ NeverActiveAgain

\* C12 amended: every started debate eventually terminates, provided every
\* provider call returns or times out and the server is not shut down
\* meanwhile: it leaves the active set, whatever the reason, and is never in
\* it again; its llm_debate_stopped frame is on the channel by then, as long
\* as the room store answered every command and the server has not closed
\* its Redis client.
C12_TerminatesWhileServing ==
  /\ \A d \in Ids :
       (d \in active_debates) ~> ((d \in Started /\ d \notin active_debates) \/ ~LoopRuns)
  /\ [](\A d \in Started :
          (d \notin active_debates /\ Answering) =>
            Len(StoppedFrames(stream[debate[d].room_id], d)) >= 1)
  /\ NeverActiveAgain

\* A debate that ran its turns has ended: it is out of the active set and its
\* stopped frame is on the channel.
C12_Witness ==
  \E d \in Started :
    /\ Terminated(d)
    /\ Len(AgentFrames(stream[debate[d].room_id], d)) >= 1
    /\ Len(StoppedFrames(stream[debate[d].room_id], d)) >= 1


\* The requests of key k allowed at an instant of the closed interval [a, b]
\* (the instant of a request is the one at which it read the clock).
AllowedIn(k, a, b) ==
  Cardinality({i \in 1..Len(allowed[k]) : allowed[k][i] >= a /\ allowed[k][i] <= b})

Window == WindowSeconds * TicksPerSecond

\* Every GET of check_rate_limit so far was answered within socket_timeout
\* (5 s) of the instant its request read the clock.
Timely == \A s \in Sessions : ~sess[s].late

\* C19 as the claim states it: for every (room, user) pair, with sequential
\* requests that Redis answers, and answers in time, no more than 5 messages
\* are allowed in any 5-second window (a window that holds the most requests
\* starts at the instant of one).
C19_AtMostFivePerWindow ==
  (NoneRaised /\ Timely) =>
    \A k \in RateKeys : \A a \in Range(allowed[k]) :
      AllowedIn(k, a, a + Window - 1) <= MaxRequests

\* C19 amended: as long as GET and SETEX are answered, and every GET within
\* 5 s of the instant its request read the clock, in any window of w whole
\* seconds no more than 5 + w messages are allowed (the full bucket plus one
\* token per second); a window that holds the most requests for its length
\* starts and ends at the instant of one.  A request whose GET raises is
\* allowed whatever the bucket holds, and one whose GET is answered after the
\* key has expired is allowed from a full bucket.
C19_BurstPlusRefill ==
  (NoneRaised /\ Timely) =>
    \A k \in RateKeys : \A a, b \in Range(allowed[k]) :
      a <= b => AllowedIn(k, a, b) <= MaxRequests + ((b - a) \div TicksPerSecond)

\* The bound is met with more than 5 messages: the full bucket was spent and
\* every token refilled since was spent too.
C19_Witness ==
  \E k \in RateKeys : \E a, b \in Range(allowed[k]) :
    /\ NoneRaised
    /\ Timely
    /\ a <= b
    /\ b - a < Window
    /\ AllowedIn(k, a, b) > MaxRequests
    /\ AllowedIn(k, a, b) = MaxRequests + ((b - a) \div TicksPerSecond)


ChatFrames(seq) ==
  LET Chat(m) == m.type = "message" /\ m.client_id # 0 IN SelectSeq(seq, Chat)
ErrorsSent(s) ==
  LET Err(e) == e.frame.type = "error" IN SelectSeq(sess[s].out, Err)

\* The first five messages are out and stored and every later one of the
\* second is refused.
FirstFiveOnly ==
  LET published == ChatFrames(stream[BurstRoom])
      stored == ChatFrames(Reverse(history[BurstRoom]))
      errors == ErrorsSent(1)
      n == sess[1].nframes
  IN
  /\ Len(published) <= MaxRequests
  /\ \A i \in 1..Len(published) : published[i] = client_message(1, i)
  /\ Len(stored) <= MaxRequests
  /\ \A i \in 1..Len(stored) : stored[i] = client_message(1, i)
  /\ sess[1].pc = "receive" =>
       Len(published) = Min(n, MaxRequests) /\ Len(stored) = Min(n, MaxRequests)
  /\ Len(errors) =
       Max(0, n - MaxRequests - (IF sess[1].pc \in {"rl_get", "rl_info"} THEN 1 ELSE 0))
  /\ \A i \in 1..Len(errors) :
       /\ errors[i].frame.code = "rate_limited"
       /\ errors[i].frame.reset_in > 0

\* C20: from a full bucket, of 6 messages one user sends within 1 second
\* exactly the first 5 are published and appended to history, each once and
\* in order; the 6th is answered by one error frame with code rate_limited
\* and reset_in > 0 and is neither published nor stored (and so is every
\* further message of that second), as long as Redis answers the commands.
C20_SixthIsRateLimited == NoneRaised => FirstFiveOnly

\* The sixth message has been answered, some time after the first.
C20_Witness ==
  /\ NoneRaised
  /\ sess[1].nframes = MaxRequests + 1
  /\ sess[1].pc = "receive"
  /\ ticks > 0
  /\ Len(allowed[<<BurstRoom, BurstUser>>]) = MaxRequests
  /\ allowed[<<BurstRoom, BurstUser>>][MaxRequests] > allowed[<<BurstRoom, BurstUser>>][1]
  /\ Len(ErrorsSent(1)) = 1


\* A step of a handler that is closing its connection.
ClosingStep ==
  \E s \in Sessions : sess'[s] # sess[s] /\ sess'[s].fn \in {"disconnect", "leave"}

\* C13: closing a connection, also the one that started the debate and the
\* last one of the room, changes nothing of any debate: no step of the
\* closing handler touches the orchestrator's state, a debate leaves the
\* active set only at the end of a stop_debate call for it, and a debate
\* whose calls all succeed within its duration takes all its turns and is
\* stopped with reason max_rounds, whenever the connection was closed.
C13_CloseLeavesDebates ==
  /\ [][ClosingStep => UNCHANGED <<active_debates, debate, stats, next_id, th>>]_vars
  /\ [][\A d \in Started :
          (d \in active_debates /\ d \notin active_debates') =>
            \E t \in Threads :
              /\ th[t].fn = "stop_debate" /\ th[t].d = d
              /\ IsStopped(th[t].msg, d)
              /\ th[t].pc \in Emitting /\ th'[t].pc \notin Emitting]_vars
  /\ [](\A d \in Ids : UndisturbedRun(d) =>
          LET frames == DebateFrames(stream[debate[d].room_id], d)
              N == IF debate[d].max_rounds < 0 THEN 0 ELSE debate[d].max_rounds IN
          /\ debate[d].current_round = N
          /\ Len(debate[d].context) = N
          /\ IsStopped(th[RunT(d)].msg, d)
          /\ th[RunT(d)].msg.reason = "max_rounds"
          /\ NoneRaised =>
               /\ Len(frames) = N + 2
               /\ \A i \in 1..N : IsAgentMessage(frames[i + 1], d)
               /\ IsStopped(frames[N + 2], d)
               /\ frames[N + 2].reason = "max_rounds")

\* The client closed its connection before the first turn of the debate it
\* started, and the debate went on to take all its turns.
C13_Witness ==
  \E d \in Ids :
    LET str == stream[ClientRoom] IN
    /\ sess[1].pc = "closed"
    /\ UndisturbedRun(d)
    /\ debate[d].max_rounds = MaxRounds
    /\ \E i \in 1..Len(str) :
         /\ str[i].action = "user_left"
         /\ \A j \in 1..(i - 1) : ~IsAgentMessage(str[j], d)
         /\ Len(AgentFrames(SubSeq(str, i + 1, Len(str)), d)) = MaxRounds

\* No handler is in the middle of anything.
HubQuiescent == \A s \in Sessions : sess[s].pc \in {"idle", "receive", "closed"}

\* Connection s is attached: registered and in its receive loop.
Attached(s) == sess[s].pc = "receive" /\ active_connections[sess[s].user] = s

\* How often frame f occurs in a sequence of frames.
Occurrences(seq, f) == Cardinality({i \in 1..Len(seq) : seq[i] = f})

\* The frames written to connection s outside history replay.
LiveFrames(s) ==
  LET live == SelectSeq(sess[s].out, LAMBDA e : ~e.replay)
  IN  [i \in 1..Len(live) |-> live[i].frame]

\* C14: a frame published to a room is written exactly once to every
\* connection attached to the room at that moment.  Stated when no handler
\* has a step pending: every frame published since connection s registered
\* has been written to s as often as it was published.
C14_PublishedFramesDelivered ==
  HubQuiescent =>
    \A s \in Sessions :
      Attached(s) =>
        LET since == SubSeq(stream[sess[s].room], sess[s].mark + 1,
                            Len(stream[sess[s].room]))
        IN  \A i \in 1..Len(since) :
              Occurrences(LiveFrames(s), since[i]) = Occurrences(since, since[i])

\* C15: on every connection all history replay frames come before any live
\* frame.
C15_ReplayBeforeLive ==
  \A s \in Sessions :
    \A i \in 1..Len(sess[s].out) : \A j \in (i + 1)..Len(sess[s].out) :
      sess[s].out[j].replay => sess[s].out[i].replay

\* C16: when a new connection of the same user has taken over the registry
\* entry and joined, the connection it replaced is closed or closing.
C16_OldSessionClosed ==
  \A old \in Sessions : \A new \in Sessions :
    ( /\ old < new
      /\ sess[old].pc # "idle"
      /\ sess[new].pc = "receive"
      /\ sess[new].user = sess[old].user )
    => sess[old].fn \in {"disconnect", "leave"}

\* C17: an error frame is written only to the connection whose inbound frame
\* caused it, and is neither published nor stored.
C17_ErrorsAreUnicast ==
  /\ \A s \in Sessions : \A i \in 1..Len(sess[s].out) :
       sess[s].out[i].frame.type = "error" => sess[s].out[i].from = s
  /\ \A r \in Rooms :
       /\ \A i \in 1..Len(stream[r]) : stream[r][i].type # "error"
       /\ \A i \in 1..Len(history[r]) : history[r][i].type # "error"

\* C18: the client messages published to a room and those in its history
\* are in the same relative order, and when no handler has a step pending
\* every published message is in the history.
C18_HistoryInPublicationOrder ==
  \A r \in Rooms :
    LET published == ChatFrames(stream[r])
        stored == ChatFrames(Reverse(history[r]))
    IN
    /\ \A i \in 1..Len(published) : \A j \in (i + 1)..Len(published) :
         \A k \in 1..Len(stored) : \A l \in 1..Len(stored) :
           (stored[k] = published[i] /\ stored[l] = published[j]) => k < l
    /\ HubQuiescent =>
         \A i \in 1..Len(published) : \E k \in 1..Len(stored) : stored[k] = published[i]


\* The rate-limit key of connection s.
RateKey(s) == <<sess[s].room, sess[s].user>>

\* C21: the rate-limit check is a read-modify-write that is not atomic: a
\* request is allowed whenever its own GET showed at least one token (or
\* raised), and its SETEX writes the value computed from that GET whatever
\* the bucket holds by then (or raises and writes nothing), so two requests
\* that both read before either writes are both allowed and only one token
\* is taken.
C21_CheckIsNotAtomic ==
  /\ [](\A s \in Sessions : sess[s].pc = "rl_setex" => sess[s].rl.tokens >= 0)
  /\ [][\A k \in RateKeys :
          allowed'[k] # allowed[k] =>
            \E s \in Sessions :
              /\ RateKey(s) = k
              /\ sess'[s].pc = "lpush"
              /\ Len(allowed'[k]) = Len(allowed[k]) + 1
              /\ \/ /\ sess[s].pc = "rl_setex"
                    /\ bucket'[k].tokens = sess[s].rl.tokens
                    /\ bucket'[k].last_update = sess[s].rl.last_update
                 \/ /\ sess[s].pc \in {"rl_get", "rl_setex"}
                    /\ faults'.raised > faults.raised
                    /\ bucket'[k] = bucket[k]]_vars

\* With the clock standing still, six requests of one key have been allowed
\* out of a bucket of five tokens, and the bucket is empty.
C21_Witness ==
  \E k \in RateKeys :
    /\ NoneRaised
    /\ Len(allowed[k]) * OneToken > Capacity + ticks
    /\ bucket_present(k, ticks)
    /\ bucket[k].tokens = 0
    /\ \A s \in Sessions : sess[s].pc = "receive"


\* max(0, (1 - tokens) * 5 / 5 - elapsed), in ticks, for the stored bucket of
\* key k at the instant t0.
ClaimedResetIn(k, t0) ==
  Max(0, ((OneToken - bucket[k].tokens) * WindowSeconds) \div MaxRequests
           - (t0 - bucket[k].last_update))

\* C22: the reset_in of a rate_limited error equals
\* max(0, (1 - tokens) * 5 / 5 - elapsed), with tokens the stored token count
\* and elapsed the time since last_update.  Stated for the error the handler
\* has just sent: the bucket is as get_rate_limit_info read it.
C22_ResetInFormula ==
  (NoneRaised /\ sess[1].pc = "send" /\ sess[1].msg.code = "rate_limited") =>
    sess[1].msg.reset_in = ClaimedResetIn(RateKey(1), sess[1].t0)


\* The connections that are in the presence set of room r by right: sadd is
\* done and srem is not.
Present(r) ==
  {s \in Sessions :
     /\ sess[s].room = r
     /\ sess[s].pc \notin {"idle", "sadd", "closed"}
     /\ ~(sess[s].fn = "disconnect" /\ sess[s].pc # "srem")
     /\ sess[s].fn # "leave"}

\* The records of user u in the presence set of room r.
PresenceRecords(r, u) == {m \in online[r] : m[2] = u}

\* C23: a join followed by the leave of the same connection restores the
\* presence set of the room to the cardinality it had before the join: when
\* every connection that joined has left, the set is empty as at the start.
C23_JoinLeaveRestoresPresence ==
  \A r \in Rooms : Present(r) = {} => Cardinality(online[r]) = 0

\* C24: whatever the sequence of join, disconnect and rejoin of one user_id
\* in a room, the presence set holds one record of that user while the user
\* is connected and never two.
C24_OnePresenceRecord ==
  \A r \in Rooms : \A u \in Users :
    /\ Cardinality(PresenceRecords(r, u)) <= 1
    /\ (\E s \in Present(r) : sess[s].user = u) =>
         Cardinality(PresenceRecords(r, u)) = 1


\* C25: when a connection closes, the typing key of its user in its room is
\* deleted at close: once the handler has ended, a typing snapshot (which
\* lists the users whose key stores a name) does not contain the user,
\* whether or not 5 seconds have passed.
C25_TypingClearedAtClose ==
  \A s \in Sessions :
    sess[s].pc = "closed" => typing_get(<<sess[s].room, sess[s].user>>, ticks) = ""


\* The leave frames of user u in a sequence of frames of room r.
LeftFrames(seq, u) ==
  SelectSeq(seq, LAMBDA m : m.type = "system" /\ m.action = "user_left" /\ m.user = u)

\* Connection s has joined: its join frame is out and stored.
Joined(s) == sess[s].pc # "idle" /\ sess[s].fn \notin {"", "connect", "join"}

\* The read loop of connection s has ended, by a client disconnect or by an
\* exception.
LoopEnded(s) == sess[s].fn \in {"disconnect", "leave"}

\* The connections of user u in room r whose leave frame is published / stored.
LeavePublished(r, u) ==
  {s \in Sessions : sess[s].room = r /\ sess[s].user = u /\ sess[s].fn = "leave"
                    /\ sess[s].pc \in {"lpush", "ltrim", "expire", "closed"}}
LeaveStored(r, u) ==
  {s \in Sessions : sess[s].room = r /\ sess[s].user = u /\ sess[s].fn = "leave"
                    /\ sess[s].pc \in {"ltrim", "expire", "closed"}}

\* The room's channel and its history hold one leave frame of the user per
\* connection that has got that far and none before.
LeaveFramesKept ==
  \A r \in Rooms, u \in Users :
    /\ Len(LeftFrames(stream[r], u)) = Cardinality(LeavePublished(r, u))
    /\ Len(LeftFrames(history[r], u)) = Cardinality(LeaveStored(r, u))

\* C26: a connection that has joined emits exactly one leave frame when its
\* read loop ends, by a client disconnect or by an unhandled exception: the
\* room's channel and its history hold one leave frame of the user per
\* connection that has got that far, as long as Redis answers the commands,
\* and never more; only a connection that joined ends, an ended connection
\* is out of the registry, and every ended connection comes to its close.
C26_OneLeaveFrame ==
  /\ [](NoneRaised => LeaveFramesKept)
  /\ [](\A r \in Rooms, u \in Users :
          /\ Len(LeftFrames(stream[r], u)) <= Cardinality(LeavePublished(r, u))
          /\ Len(LeftFrames(history[r], u)) <= Cardinality(LeaveStored(r, u)))
  /\ [](\A s \in Sessions :
          LoopEnded(s) => Joined(s) /\ active_connections[sess[s].user] # s)
  /\ \A s \in Sessions : LoopEnded(s) ~> sess[s].pc = "closed"

\* The connection was lost to the KeyError of its own stop request, and its
\* one leave frame is in the channel and in the history.
C26_Witness ==
  /\ NoneRaised
  /\ sess[1].pc = "closed"
  /\ th[StopT(1)].pc = "raised"
  /\ Len(LeftFrames(stream[LeaveRoom], LeaveUser)) = 1
  /\ Len(LeftFrames(history[LeaveRoom], LeaveUser)) = 1


\* The client chat messages among the frames of a sequence.
ClientFrames(seq) == SelectSeq(seq, LAMBDA m : m.type = "message" /\ m.client_id # 0)

\* The client chat messages that a room's channel or history holds.
KeptFrames ==
  UNION {Range(ClientFrames(stream[r])) \cup Range(ClientFrames(history[r])) : r \in Rooms}

\* C28: every client message that is stored or published has a content of
\* at most 1000 characters, as it stands after sanitization.
C28_ContentAtMostLimit ==
  \A m \in KeptFrames : Len(m.content) <= MaxContent

\* C29: every client frame of type message that is stored or published has
\* a non-empty content; a frame whose content is missing or empty is never
\* stored or published.
C29_ContentNotEmpty ==
  \A m \in KeptFrames : m.content # <<>>

\* C30: sanitization is idempotent: sanitizing the sanitized content of a
\* message that the handler has accepted gives that content again.
C30_SanitizeIdempotent ==
  \A s \in Sessions :
    sess[s].fn = "message" =>
      sanitize_content(sess[s].msg.content) = sess[s].msg.content


\* What Redis holds.
Backplane == <<stream, history, online, typing, bucket>>

\* C27: while connected is false every write is a silent no-op, every read
\* returns empty and nothing raises: what Redis holds never changes; no
\* history is replayed although the room has one, every presence frame lists
\* nobody and every typing frame says stopped; no frame is refused for its
\* rate; and a handler leaves its loop only when its client disconnects.
C27_DownIsSilent ==
  /\ [][Backplane' = Backplane]_vars
  /\ [](\A s \in Sessions :
          /\ sess[s].replay = <<>>
          /\ \A i \in DOMAIN sess[s].out :
               ~sess[s].out[i].replay /\ sess[s].out[i].frame.type # "error"
          /\ sess[s].msg.type = "presence" => sess[s].msg.users = {}
          /\ sess[s].msg.type = "typing" => sess[s].msg.action = "stopped")
  /\ [][\A s \in Sessions :
          LoopEnded(s)' /\ ~LoopEnded(s) => sess[s].pc = "receive" /\ sess'[s].pc = "srem"]_vars

\* Both users have sent their frames; one has closed its connection and the
\* other is still served, while the room's history in Redis is as it was.
C27_Witness ==
  /\ ~connected
  /\ sess[1].pc = "closed" /\ sess[1].nframes = DownFrames
  /\ sess[2].pc = "receive" /\ sess[2].nframes = DownFrames
  /\ Len(history[DownRoom]) = HistoryCap - 1


\* The last n entries of a sequence.
LastN(seq, n) == SubSeq(seq, Len(seq) - Min(n, Len(seq)) + 1, Len(seq))

\* The frames appended to the room before the start, oldest first.
OldAppended == [k \in 1..(HistoryCap - 1) |-> [OldMsg EXCEPT !.ts = k - HistoryCap]]

\* The frames connection s has appended so far, in the order of its appends:
\* its join frame, then its chat messages.
JoinAppended(s) ==
  \/ sess[s].fn = "join" /\ sess[s].pc \in {"ltrim", "expire", "receive"}
  \/ sess[s].fn \notin {"", "connect", "join"}
MessagesAppended(s) ==
  IF sess[s].fn = "message" /\ sess[s].pc \in {"rl_get", "rl_setex", "lpush"}
    THEN sess[s].nframes - 1 ELSE sess[s].nframes
AppendedBy(s) ==
  IF ~JoinAppended(s) THEN <<>>
  ELSE <<join_message(sess[s].room, sess[s].user)>>
         \o [n \in 1..MessagesAppended(s) |-> client_message(s, n)]

\* What connection s was replayed and is still to be replayed.
ReadBy(s) ==
  [i \in 1..Len(SelectSeq(sess[s].out, LAMBDA o : o.replay)) |->
     SelectSeq(sess[s].out, LAMBDA o : o.replay)[i].frame] \o sess[s].replay

\* C31: with one writer, a read of the room's history returns the most
\* recently appended frames, at most 50, oldest first: when the reader's
\* LRANGE returns, what it is replayed is the last min(n, 50) of the n frames
\* appended so far, in the order of their appends (the appends and the read
\* being those that Redis answered).  A read never returns more than 50
\* frames.
C31_ReadReturnsLastFifty ==
  [][sess[Reader].pc = "lrange" /\ sess'[Reader].pc # "lrange" =>
       /\ NoneRaised' =>
            ReadBy(Reader)' = LastN(OldAppended \o AppendedBy(Writer), HistoryCap)
       /\ Len(ReadBy(Reader)') <= HistoryCap]_vars

\* The reader was replayed 50 frames that end with the writer's join frame and
\* its chat messages: more than 50 were appended, the oldest are left out.
C31_Witness ==
  /\ NoneRaised
  /\ sess[Reader].pc = "receive"
  /\ Len(ReadBy(Reader)) = HistoryCap
  /\ ReadBy(Reader)[HistoryCap] = client_message(Writer, HistoryFrames)
  /\ ReadBy(Reader)[1].ts = HistoryFrames + 1 - HistoryCap


\* The contents of the agent responses of debate d published so far, in the
\* order of their publication (a response is named by the round it closes;
\* the topic is named 0).  The responses of a debate are those of the rounds
\* 1, 2, ... in this order, published or not.
Responses(d) ==
  [i \in 1..Len(AgentFrames(stream[debate[d].room_id], d)) |->
     AgentFrames(stream[debate[d].room_id], d)[i].round]

\* C32: whenever a provider call of a debate is in flight, its prompt is the
\* topic at round 0 and otherwise the content of the debate's latest agent
\* response, and its context is the sequence of all agent responses so far
\* in order, as many as current_round.
C32_PromptAndContext ==
  \A d \in Started :
    th[RunT(d)].pc = "llm" =>
      /\ th[RunT(d)].current_prompt =
           IF debate[d].current_round = 0 THEN 0
           ELSE debate[d].context[Len(debate[d].context)]
      /\ prompt_of(d, RunT(d)) =
           IF debate[d].current_round = 0 THEN debate[d].topic ELSE "text"
      /\ debate[d].context = [i \in 1..debate[d].current_round |-> i]
      /\ Len(debate[d].context) = debate[d].current_round
      /\ Answering => debate[d].context = Responses(d)

\* The second turn of a debate is awaiting its provider.
C32_Witness ==
  \E d \in Started :
    /\ th[RunT(d)].pc = "llm"
    /\ debate[d].current_round = 1
    /\ th[RunT(d)].current_prompt = 1


IsRound(m, d) == m.action = "llm_debate_round" /\ m.debate_id = d

\* C33: once the stopped frame of a debate is published, no agent message
\* and no round frame of that debate is published and its current_round
\* does not change any more.
C33_NothingAfterStopped ==
  [][\A d \in Started :
       StoppedFrames(stream[debate[d].room_id], d) # <<>> =>
         /\ debate'[d].current_round = debate[d].current_round
         /\ \A r \in Rooms :
              Len(stream'[r]) > Len(stream[r]) =>
                /\ ~IsAgentMessage(stream'[r][Len(stream'[r])], d)
                /\ ~IsRound(stream'[r][Len(stream'[r])], d)]_vars


\* The frames add_to_history is meant for.
Storable(m) ==
  \/ m.type = "message"
  \/ /\ m.type = "system"
     /\ m.action \in {"user_joined", "user_left", "llm_debate_started", "llm_debate_stopped"}

RoundFrames(seq, d) == SelectSeq(seq, LAMBDA m : IsRound(m, d))

\* The round frames of debate d that its task has handed to PUBLISH and
\* PUBLISH has answered or failed: one for each completed turn, the one being
\* published excepted.
RoundsOut(d) ==
  debate[d].current_round -
    (IF th[RunT(d)].pc = "publish" /\ th[RunT(d)].fn = "round" THEN 1 ELSE 0)

\* C34: a room's history holds only frames of type message and the system
\* frames of join, leave, debate start and debate stop; a round frame is
\* published for each completed turn (the one being published excepted; it
\* is on the channel unless its PUBLISH raised) and, like presence, typing and
\* error frames, is never appended.
C34_HistoryKinds ==
  /\ \A r \in Rooms : \A i \in DOMAIN history[r] : Storable(history[r][i])
  /\ \A d \in Started :
       /\ Len(RoundFrames(stream[debate[d].room_id], d)) <= RoundsOut(d)
       /\ NoneRaised => Len(RoundFrames(stream[debate[d].room_id], d)) = RoundsOut(d)

\* Presence, typing and round frames were published and an error was sent,
\* and the history has taken the agent message and the leave frame.
C34_Witness ==
  /\ \E i \in DOMAIN stream[FramesRoom] : stream[FramesRoom][i].type = "presence"
  /\ \E i \in DOMAIN stream[FramesRoom] : stream[FramesRoom][i].type = "typing"
  /\ \E d \in Started : RoundFrames(stream[FramesRoom], d) # <<>>
  /\ \E i \in DOMAIN sess[1].out : sess[1].out[i].frame.type = "error"
  /\ \E i \in DOMAIN history[FramesRoom] :
       history[FramesRoom][i].action = "user_left"
  /\ \E d \in Started : AgentFrames(history[FramesRoom], d) # <<>>


\* C35: the debates ever started are the completed ones and the active ones:
\* total_debates = completed_debates + the size of the active set.
C35_StatsBalance ==
  stats.total_debates = stats.completed_debates + Cardinality(active_debates)


\* Every frame of debate d in a sequence of frames.
AllDebateFrames(seq, d) == SelectSeq(seq, LAMBDA m : m.debate_id = d)

\* C36: the started frame of a debate is published before every other frame
\* of that debate: the first frame of the debate on its room's channel is
\* its started frame.
C36_StartedFrameFirst ==
  \A d \in Started :
    AllDebateFrames(stream[debate[d].room_id], d) # <<>> =>
      IsStarted(AllDebateFrames(stream[debate[d].room_id], d)[1], d)


\* Connection s is open and no later connection of its user has replaced it.
LatestOpen(s) ==
  /\ sess[s].pc # "idle"
  /\ ~LoopEnded(s)
  /\ \A k \in Sessions : k > s /\ sess[k].pc # "idle" => sess[k].user # sess[s].user

\* C37: the close of a connection removes only its own registry entry: the
\* latest open connection of a user stays registered, whatever happens to
\* the older connections of that user.
C37_CloseRemovesOwnEntry ==
  \A s \in Sessions : LatestOpen(s) => active_connections[sess[s].user] = s


\* The connection that sent a client message (client_id = 10 * s + n).
SenderOf(m) == m.client_id \div 10

\* C38: a client message is stored in and published to the room of the
\* connection that sent it, and the room and the user the stored frame names
\* are those of that connection.
C38_FrameBoundToSession ==
  \A r \in Rooms :
    \A m \in Range(ClientFrames(stream[r])) \cup Range(ClientFrames(history[r])) :
      /\ sess[SenderOf(m)].room = r
      /\ m.room = r
      /\ m.user = sess[SenderOf(m)].user


\* The tokens of key k at the instant t0 in a bucket whose key never
\* expires: the last value written, refilled since then; full if nothing was
\* written.
NeverExpiringTokens(k, t0) ==
  IF bucket[k].expires = 0 THEN Capacity
  ELSE Min(Capacity, bucket[k].tokens + tokens_to_add(t0 - bucket[k].last_update))

\* The request of connection s finds, at this instant, what it would with a
\* key that never expires: the token count, and so the decision and the
\* value it writes.
SameAsNeverExpiring(s) ==
  /\ current_tokens(RateKey(s), ticks, sess[s].t0)
       = NeverExpiringTokens(RateKey(s), sess[s].t0)
  /\ rate_allowed(RateKey(s), ticks, sess[s].t0)
       <=> NeverExpiringTokens(RateKey(s), sess[s].t0) >= OneToken

\* C39 as the claim states it: the expiry of a bucket's key never changes a
\* decision: whenever the GET of a request is answered, the request gets the
\* decision that it would with a key that never expires.
C39_ExpiryChangesNothing ==
  \A s \in Sessions :
    sess[s].pc = "rl_get" =>
      (rate_allowed(RateKey(s), ticks, sess[s].t0)
         <=> NeverExpiringTokens(RateKey(s), sess[s].t0) >= OneToken)

\* C39 amended: the expiry of a bucket's key does not change the decision of
\* a request whose GET is answered within socket_timeout (5 s) of the instant
\* the request read the clock: it finds the token count, and so gets the
\* decision and writes the value, that it would with a key that never
\* expires.
C39_ExpiryUnderTimeout ==
  \A s \in Sessions :
    (sess[s].pc = "rl_get" /\ ticks - sess[s].t0 <= RedisTimeout * TicksPerSecond)
      => SameAsNeverExpiring(s)

\* A burst had emptied the bucket; the next request came before the key
\* expired and its GET was answered after, within 5 s: it was allowed from
\* the absent key, as it would have been from the refilled bucket.
C39_Witness ==
  \E s \in Sessions :
    /\ sess[s].pc = "rl_setex"
    /\ bucket[RateKey(s)].expires > 0
    /\ bucket[RateKey(s)].tokens < OneToken
    /\ sess[s].t0 < bucket[RateKey(s)].expires
    /\ ticks >= bucket[RateKey(s)].expires
    /\ ticks - sess[s].t0 <= RedisTimeout * TicksPerSecond


\* The token count stored by an allow lies between 0 and 4 tokens.
StoredTokensInRange ==
  \A k \in RateKeys :
    bucket[k].expires > 0 =>
      bucket[k].tokens >= 0 /\ bucket[k].tokens <= Capacity - OneToken

\* The requests allowed in any interval of T seconds are at most 5 + T (an
\* interval that holds the most requests for its length starts and ends at
\* the instant of one).
AllowedWithinRefill ==
  \A k \in RateKeys : \A a, b \in Range(allowed[k]) :
    a <= b => AllowedIn(k, a, b) * OneToken <= Capacity + (b - a)

\* The bucket is written only by the SETEX of a request that is allowed, with
\* the instant the request read the clock.
WrittenByAllowOnly ==
  \A k \in RateKeys :
    bucket'[k] # bucket[k] =>
      \E s \in Sessions :
        /\ RateKey(s) = k
        /\ sess[s].pc = "rl_setex" /\ sess'[s].pc = "lpush"
        /\ allowed'[k] = Append(allowed[k], sess[s].t0)
        /\ bucket'[k].last_update = sess[s].t0

\* C40 as the claim states it: with sequential requests of one (room, user),
\* the token count stored by an allow lies between 0 and 4 tokens; the bucket
\* is written only by an allow, at the instant of the request, so a denial
\* writes nothing; and, as long as GET and SETEX are answered, the requests
\* allowed in any interval of T seconds are at most 5 + T.
C40_BucketBounds ==
  /\ [](StoredTokensInRange /\ (NoneRaised => AllowedWithinRefill))
  /\ [][WrittenByAllowOnly]_vars

\* C40 amended: the same, with the bound on the requests allowed in an
\* interval stated for the runs in which every GET was answered within 5 s
\* of the instant its request read the clock: a GET answered later can find
\* the key expired and its request is then allowed from a full bucket.
C40_BucketBoundsInTime ==
  /\ [](StoredTokensInRange /\ ((NoneRaised /\ Timely) => AllowedWithinRefill))
  /\ [][WrittenByAllowOnly]_vars

\* More than 5 requests were allowed and the bucket is left with less than
\* one token: the next request is denied.
C40_Witness ==
  \E k \in RateKeys :
    /\ NoneRaised
    /\ Timely
    /\ Len(allowed[k]) > MaxRequests
    /\ bucket_present(k, ticks)
    /\ ~rate_allowed(k, ticks, ticks)

====
